---- MODULE Spec2Model ----
(***************************************************************************)
(* Model of src/src/core_write.cpp (VerusCoin): the script disassembler,   *)
(* the amount formatter, the currency-value map's interchange form and the *)
(* projections of the typed pay-to-condition payloads.                     *)
(*                                                                         *)
(* Every function of the file is a pure transformation of its arguments.   *)
(* The state is the call last made: its name (fn), its arguments (arg),    *)
(* what it returned (ret) and whether it ended in a fault instead of       *)
(* returning (fault).  One action per function draws the arguments from a  *)
(* bounded set and applies the function as the code computes it; Return    *)
(* ends the call, after which the next one can be made.                    *)
(*                                                                         *)
(* Strings are TLA+ strings (\o, Len, SubSeq), byte vectors are sequences  *)
(* of 0..255.                                                              *)
(***************************************************************************)
EXTENDS Integers, Sequences, FiniteSets, TLC

VARIABLES fn, arg, ret, fault

vars == <<fn, arg, ret, fault>>

(***************************************************************************)
(* Bounds of the model.                                                    *)
(***************************************************************************)
\* small amounts -MaxUnits..MaxUnits (in 1e-8 units) are formatted besides the named ones
MaxUnits == 3
\* currency identifiers are 0..MaxId, 0 being the null uint160
MaxId == 2
\* entries of an interchange object handed to CCurrencyValueMap(const UniValue&)
MaxKeys == 3
\* opcodes (chunks) of a script handed to the disassembler
MaxOps == 3
\* members of a currency basket, and entries of each array that runs parallel to it
MaxBasket == 3
\* entries of each of the four reward era arrays of a currency definition
MaxEras == 2

(***************************************************************************)
(* Text helpers: strprintf's %d and HexStr.                                *)
(***************************************************************************)
Digit(n) == SubSeq("0123456789", n + 1, n + 1)

RECURSIVE DecStr(_)
\* the decimal digits of a natural number, as %d prints them
DecStr(n) == IF n < 10 THEN Digit(n) ELSE DecStr(n \div 10) \o Digit(n % 10)

RECURSIVE Zeros(_)
Zeros(k) == IF k <= 0 THEN "" ELSE "0" \o Zeros(k - 1)

CharAt(s, i) == SubSeq(s, i, i)

IsDigitChar(c) == c \in {"0", "1", "2", "3", "4", "5", "6", "7", "8", "9"}

DigitVal(c) ==
    CASE c = "0" -> 0 [] c = "1" -> 1 [] c = "2" -> 2 [] c = "3" -> 3 [] c = "4" -> 4
      [] c = "5" -> 5 [] c = "6" -> 6 [] c = "7" -> 7 [] c = "8" -> 8 [] OTHER -> 9

\* str.substr(0, Len(p)) == p
HasPrefix(str, p) == Len(str) >= Len(p) /\ SubSeq(str, 1, Len(p)) = p

AllDigits(s) == \A i \in 1..Len(s) : IsDigitChar(CharAt(s, i))

RECURSIVE ParseNat(_)
\* the value of a string of decimal digits ("" is 0)
ParseNat(s) ==
    IF Len(s) = 0 THEN 0
    ELSE ParseNat(SubSeq(s, 1, Len(s) - 1)) * 10 + DigitVal(CharAt(s, Len(s)))

(***************************************************************************)
(* int64_t.  TLC's integers are 32 bits wide, so a 64-bit amount is carried *)
(* as a sign and a magnitude of three digits in base 10^8:                 *)
(*     |a| = d2 * 10^16 + d1 * 10^8 + d0,    0 <= d1, d0 < 10^8.           *)
(* INT64_MAX = 922 33720368 54775807, INT64_MIN = -(922 33720368 54775808). *)
(***************************************************************************)
COIN == 100000000

Int64(neg, d2, d1, d0) == [neg |-> neg /\ (d2 + d1 + d0 > 0), d2 |-> d2, d1 |-> d1, d0 |-> d0]

INT64_MAX == Int64(FALSE, 922, 33720368, 54775807)

INT64_MIN == Int64(TRUE, 922, 33720368, 54775808)

\* a value of int range as an int64_t
FromInt(n) ==
    LET m == IF n < 0 THEN 0 - n ELSE n
    IN  Int64(n < 0, 0, m \div COIN, m % COIN)

\* whether sign and magnitude fit an int64_t
InInt64Range(neg, d2, d1, d0) ==
    LET top == IF neg THEN INT64_MIN ELSE INT64_MAX
    IN  \/ d2 < top.d2
        \/ d2 = top.d2 /\ d1 < top.d1
        \/ d2 = top.d2 /\ d1 = top.d1 /\ d0 <= top.d0

\* a / COIN, C++ division truncating toward zero
DivCOIN(a) == Int64(a.neg, 0, a.d2, a.d1)

\* a % COIN, with the sign of the dividend
ModCOIN(a) == Int64(a.neg, 0, 0, a.d0)

\* the decimal digits of |a|
MagStr(a) ==
    IF a.d2 > 0 THEN DecStr(a.d2) \o Zeros(8 - Len(DecStr(a.d1))) \o DecStr(a.d1)
                     \o Zeros(8 - Len(DecStr(a.d0))) \o DecStr(a.d0)
    ELSE IF a.d1 > 0 THEN DecStr(a.d1) \o Zeros(8 - Len(DecStr(a.d0))) \o DecStr(a.d0)
    ELSE DecStr(a.d0)

\* strprintf("%d", a)
FmtD(a) == (IF a.neg THEN "-" ELSE "") \o MagStr(a)

\* strprintf("%08d", a): zero fill to width 8, the fill placed after the sign
Fmt08D(a) ==
    LET sgn == IF a.neg THEN "-" ELSE ""
    IN  sgn \o Zeros(8 - Len(sgn) - Len(MagStr(a))) \o MagStr(a)

(***************************************************************************)
(* UniValue: typ, val, keys, values (univalue.h).  A boolean is VBOOL with *)
(* val "1" for true and "" for false; an object holds parallel keys and    *)
(* values and push_back(Pair(k, v)) appends without looking for k.         *)
(***************************************************************************)
UniValue(typ, val) == [typ |-> typ, val |-> val, keys |-> <<>>, values |-> <<>>]

NullUniValue == UniValue("VNULL", "")

UniStr(s) == UniValue("VSTR", s)

UniNum(s) == UniValue("VNUM", s)

UniBool(b) == UniValue("VBOOL", IF b THEN "1" ELSE "")

UniObj == UniValue("VOBJ", "")

UniArr == UniValue("VARR", "")

\* obj.push_back(Pair(key, value))
PushKV(obj, key, value) ==
    [obj EXCEPT !.keys = Append(@, key), !.values = Append(@, value)]

\* arr.push_back(value)
PushBack(arr, value) == [arr EXCEPT !.values = Append(@, value)]

HasKey(obj, key) == \E i \in 1..Len(obj.keys) : obj.keys[i] = key

\* the value under the first occurrence of key
ValueOf(obj, key) ==
    obj.values[CHOOSE i \in 1..Len(obj.keys) :
                   obj.keys[i] = key /\ \A j \in 1..(i - 1) : obj.keys[j] # key]

CountKey(obj, key) == Cardinality({i \in 1..Len(obj.keys) : obj.keys[i] = key})

(***************************************************************************)
(* ValueFromAmount.  -amount overflows for INT64_MIN, which is undefined   *)
(* behaviour: the build either wraps (n_abs stays INT64_MIN, quotient and  *)
(* remainder are negative) or traps.  NegateOutcomes lists both.           *)
(***************************************************************************)
NegateOutcomes(a) ==
    IF a = INT64_MIN THEN {[fault |-> FALSE, value |-> INT64_MIN],
                           [fault |-> TRUE, value |-> INT64_MIN]}
    ELSE {[fault |-> FALSE, value |-> Int64(~a.neg, a.d2, a.d1, a.d0)]}

\* the results the call can have: [fault, value], value the VNUM returned
ValueFromAmount(amount) ==
    LET sign == amount.neg
        absOutcomes == IF sign THEN NegateOutcomes(amount)
                       ELSE {[fault |-> FALSE, value |-> amount]}
    IN  { IF o.fault THEN [fault |-> TRUE, value |-> NullUniValue]
          ELSE LET n_abs == o.value
                   quotient == DivCOIN(n_abs)
                   remainder == ModCOIN(n_abs)
               IN  [fault |-> FALSE,
                    value |-> UniNum((IF sign THEN "-" ELSE "") \o FmtD(quotient)
                                     \o "." \o Fmt08D(remainder))]
          : o \in absOutcomes }

\* the amounts the model formats
AmountInputs ==
    {FromInt(n) : n \in (0 - MaxUnits)..MaxUnits}
    \cup {FromInt(0 - 150000000), FromInt(99999999), FromInt(100000000),
          FromInt(0 - 99999999), FromInt(2100000000), Int64(FALSE, 0, 21000000, 0),
          Int64(TRUE, 1, 0, 1), INT64_MAX, Int64(TRUE, 922, 33720368, 54775807),
          INT64_MIN}

(***************************************************************************)
(* Destinations and their text form (key_io): a destination is a kind and  *)
(* a 160-bit identifier, here a number, 0 being the null identifier.  The  *)
(* text form is a marker character for the kind followed by the identifier *)
(* in decimal; text that is not the text form of a destination decodes to  *)
(* CNoDestination, whose identifier is null.                               *)
(***************************************************************************)
Ids == 0..MaxId

IsNull(id) == id = 0

CNoDestination == [kind |-> "CNoDestination", id |-> 0]

CKeyID(id) == [kind |-> "CKeyID", id |-> id]

CScriptID(id) == [kind |-> "CScriptID", id |-> id]

CIdentityID(id) == [kind |-> "CIdentityID", id |-> id]

CQuantumID(id) == [kind |-> "CQuantumID", id |-> id]

DestinationKinds == {"CKeyID", "CScriptID", "CIdentityID", "CQuantumID"}

KindMarker(kind) ==
    CASE kind = "CKeyID" -> "R"
      [] kind = "CScriptID" -> "b"
      [] kind = "CIdentityID" -> "i"
      [] kind = "CQuantumID" -> "q"
      [] OTHER -> ""

EncodeDestination(dest) ==
    IF dest.kind \in DestinationKinds THEN KindMarker(dest.kind) \o DecStr(dest.id) ELSE ""

DecodeDestination(str) ==
    LET digits == SubSeq(str, 2, Len(str))
        kinds == {k \in DestinationKinds : Len(str) >= 1 /\ KindMarker(k) = CharAt(str, 1)}
    IN  IF /\ kinds # {}
           /\ Len(digits) \in 1..3
           /\ AllDigits(digits)
           /\ DecStr(ParseNat(digits)) = digits
        THEN [kind |-> CHOOSE k \in kinds : TRUE, id |-> ParseNat(digits)]
        ELSE CNoDestination

GetDestinationID(dest) == IF dest.kind \in DestinationKinds THEN dest.id ELSE 0

(***************************************************************************)
(* AmountFromValueNoErr (rpc/server), as the constructor's try/catch uses  *)
(* it: the amount of a VNUM or VSTR holding [-]digits[.digits], at most 8  *)
(* decimals, within int64_t; anything else throws.                         *)
(***************************************************************************)
RECURSIVE DotAt(_, _)
\* the position of the first "." of s at or after i, 0 when there is none
DotAt(s, i) ==
    IF i > Len(s) THEN 0 ELSE IF CharAt(s, i) = "." THEN i ELSE DotAt(s, i + 1)

AmountFromValueNoErr(value) ==
    LET str == value.val
        neg == Len(str) >= 1 /\ CharAt(str, 1) = "-"
        body == IF neg THEN SubSeq(str, 2, Len(str)) ELSE str
        dot == DotAt(body, 1)
        intPart == IF dot = 0 THEN body ELSE SubSeq(body, 1, dot - 1)
        fracPart == IF dot = 0 THEN "" ELSE SubSeq(body, dot + 1, Len(body))
        wellFormed ==
            /\ value.typ \in {"VNUM", "VSTR"}
            /\ Len(intPart) \in 1..11 /\ AllDigits(intPart)
            /\ (Len(intPart) > 1 => CharAt(intPart, 1) # "0")
            /\ (dot # 0 => Len(fracPart) \in 1..8)
            /\ AllDigits(fracPart)
        d2 == ParseNat(SubSeq(intPart, 1, Len(intPart) - 8))
        d1 == ParseNat(SubSeq(intPart, IF Len(intPart) > 8 THEN Len(intPart) - 7 ELSE 1,
                              Len(intPart)))
        d0 == ParseNat(fracPart \o Zeros(8 - Len(fracPart)))
    IN  IF wellFormed /\ InInt64Range(neg, d2, d1, d0)
        THEN [threw |-> FALSE, amount |-> Int64(neg, d2, d1, d0)]
        ELSE [threw |-> TRUE, amount |-> FromInt(0)]

(***************************************************************************)
(* CCurrencyValueMap: valueMap is a std::map<uint160, CAmount>, here a     *)
(* function from a set of identifiers to amounts.                          *)
(***************************************************************************)
EmptyMap == [id \in {} |-> FromInt(0)]

\* valueMap[currencyID] = amount
MapSet(valueMap, currencyID, amount) ==
    [id \in (DOMAIN valueMap) \cup {currencyID} |->
        IF id = currencyID THEN amount ELSE valueMap[id]]

\* CCurrencyValueMap::IsValid (pbaas/reserves.h): no entry under the null identifier
IsValidValueMap(valueMap) == \A id \in DOMAIN valueMap : ~IsNull(id)

\* the break of the constructor's three failure branches
BreakKeepingEntries(valueMap) == valueMap

\* valueMap.clear(); break;
ClearAndBreak(valueMap) == EmptyMap

RECURSIVE CCurrencyValueMapLoop(_, _, _)
\* the constructor's for loop from entry i on (entries count from 1 here)
CCurrencyValueMapLoop(uni, i, valueMap) ==
    IF i > Len(uni.keys) THEN valueMap
    ELSE LET currencyID == GetDestinationID(DecodeDestination(uni.keys[i]))
             parsed == AmountFromValueNoErr(uni.values[i])
         IN  IF IsNull(currencyID) THEN ClearAndBreak(valueMap)
             ELSE IF currencyID \in DOMAIN valueMap THEN ClearAndBreak(valueMap)
             ELSE IF parsed.threw THEN ClearAndBreak(valueMap)
             ELSE CCurrencyValueMapLoop(uni, i + 1,
                                        MapSet(valueMap, currencyID, parsed.amount))

\* CCurrencyValueMap::CCurrencyValueMap(const UniValue &uni)
CCurrencyValueMap(uni) ==
    IF uni.typ = "VOBJ" THEN CCurrencyValueMapLoop(uni, 1, EmptyMap) ELSE EmptyMap

MinOf(S) == CHOOSE x \in S : \A y \in S : x <= y

RECURSIVE ToUniValueLoop(_, _, _)
\* the loop of ToUniValue over the entries not yet emitted, in the map's key order
ToUniValueLoop(valueMap, left, retVal) ==
    IF left = {} THEN {[fault |-> FALSE, value |-> retVal]}
    ELSE LET id == MinOf(left)
         IN  UNION { IF o.fault THEN {[fault |-> TRUE, value |-> NullUniValue]}
                     ELSE ToUniValueLoop(valueMap, left \ {id},
                              PushKV(retVal, EncodeDestination(CIdentityID(id)), o.value))
                     : o \in ValueFromAmount(valueMap[id]) }

\* CCurrencyValueMap::ToUniValue: the results the call can have
CCurrencyValueMap_ToUniValue(valueMap) == ToUniValueLoop(valueMap, DOMAIN valueMap, UniObj)

\* the amounts the model puts in maps
MapAmounts == {FromInt(1), FromInt(0 - 150000000), INT64_MAX, INT64_MIN}

\* the maps the model projects
ValueMapInputs == UNION {[D -> MapAmounts] : D \in SUBSET Ids}

\* keys of the interchange objects the model parses: identities (the null one
\* among them), a key hash with the identifier of an identity, and text that
\* is no destination
KeyInputs == {EncodeDestination(CIdentityID(id)) : id \in Ids}
                 \cup {EncodeDestination(CKeyID(1)), "zz"}

ValueInputs == {UniNum("0.00000001"), UniNum("-1.50000000"), UniStr("1.5x")}

\* the object of the given keys and values
ObjectOf(ks, vs) == [UniObj EXCEPT !.keys = ks, !.values = vs]

\* values that are no object
NonObjectInputs == {NullUniValue, UniStr("i1"), PushBack(UniArr, UniNum("1.00000000"))}

(***************************************************************************)
(* Scripts.  A script is a sequence of bytes; pc is the position of the    *)
(* next byte to read, script.end() is Len(script) + 1.  Opcode values,     *)
(* GetOp, GetOpName, CScriptNum and IsUnspendable are script/script.h and  *)
(* script.cpp; CheckSignatureEncoding is script/interpreter.cpp.           *)
(***************************************************************************)
OP_0 == 0

OP_PUSHDATA1 == 76

OP_PUSHDATA2 == 77

OP_PUSHDATA4 == 78

OP_1NEGATE == 79

OP_RESERVED == 80

OP_1 == 81

OP_2 == 82

OP_16 == 96

OP_NOP == 97

OP_RETURN == 106

OP_ADD == 147

OP_CHECKMULTISIGVERIFY == 175

OP_NOP1 == 176

OP_NOP10 == 185

OP_INVALIDOPCODE == 255

MAX_SCRIPT_SIZE == 10000

SIGHASH_ALL == 1

SIGHASH_NONE == 2

SIGHASH_SINGLE == 3

SIGHASH_ANYONECANPAY == 128

\* the names of OP_NOP (97) .. OP_CHECKMULTISIGVERIFY (175), in opcode order
OpNames ==
    << "OP_NOP", "OP_VER", "OP_IF", "OP_NOTIF", "OP_VERIF", "OP_VERNOTIF", "OP_ELSE",
       "OP_ENDIF", "OP_VERIFY", "OP_RETURN", "OP_TOALTSTACK", "OP_FROMALTSTACK",
       "OP_2DROP", "OP_2DUP", "OP_3DUP", "OP_2OVER", "OP_2ROT", "OP_2SWAP", "OP_IFDUP",
       "OP_DEPTH", "OP_DROP", "OP_DUP", "OP_NIP", "OP_OVER", "OP_PICK", "OP_ROLL",
       "OP_ROT", "OP_SWAP", "OP_TUCK", "OP_CAT", "OP_SUBSTR", "OP_LEFT", "OP_RIGHT",
       "OP_SIZE", "OP_INVERT", "OP_AND", "OP_OR", "OP_XOR", "OP_EQUAL", "OP_EQUALVERIFY",
       "OP_RESERVED1", "OP_RESERVED2", "OP_1ADD", "OP_1SUB", "OP_2MUL", "OP_2DIV",
       "OP_NEGATE", "OP_ABS", "OP_NOT", "OP_0NOTEQUAL", "OP_ADD", "OP_SUB", "OP_MUL",
       "OP_DIV", "OP_MOD", "OP_LSHIFT", "OP_RSHIFT", "OP_BOOLAND", "OP_BOOLOR",
       "OP_NUMEQUAL", "OP_NUMEQUALVERIFY", "OP_NUMNOTEQUAL", "OP_LESSTHAN",
       "OP_GREATERTHAN", "OP_LESSTHANOREQUAL", "OP_GREATERTHANOREQUAL", "OP_MIN",
       "OP_MAX", "OP_WITHIN", "OP_RIPEMD160", "OP_SHA1", "OP_SHA256", "OP_HASH160",
       "OP_HASH256", "OP_CODESEPARATOR", "OP_CHECKSIG", "OP_CHECKSIGVERIFY",
       "OP_CHECKMULTISIG", "OP_CHECKMULTISIGVERIFY" >>

\* GetOpName (script.cpp)
GetOpName(opcode) ==
    IF opcode = OP_0 THEN "0"
    ELSE IF opcode = OP_PUSHDATA1 THEN "OP_PUSHDATA1"
    ELSE IF opcode = OP_PUSHDATA2 THEN "OP_PUSHDATA2"
    ELSE IF opcode = OP_PUSHDATA4 THEN "OP_PUSHDATA4"
    ELSE IF opcode = OP_1NEGATE THEN "-1"
    ELSE IF opcode = OP_RESERVED THEN "OP_RESERVED"
    ELSE IF opcode >= OP_1 /\ opcode <= OP_16 THEN DecStr(opcode - OP_RESERVED)
    ELSE IF opcode >= OP_NOP /\ opcode <= OP_CHECKMULTISIGVERIFY
         THEN OpNames[opcode - OP_NOP + 1]
    ELSE IF opcode >= OP_NOP1 /\ opcode <= OP_NOP10
         THEN "OP_NOP" \o DecStr(opcode - OP_NOP1 + 1)
    ELSE IF opcode = OP_INVALIDOPCODE THEN "OP_INVALIDOPCODE"
    ELSE "OP_UNKNOWN"

\* the push length read from 1, 2 or 4 little-endian bytes; a fourth byte
\* above 127 is taken as 127, which leaves the length beyond any script
ReadLE(bytes) ==
    LET b(i) == IF i <= Len(bytes) THEN bytes[i] ELSE 0
    IN  b(1) + 256 * b(2) + 65536 * b(3)
            + 16777216 * (IF b(4) > 127 THEN 127 ELSE b(4))

\* CScript::GetOp (GetOp2): [ok, pc, opcode, vch]
GetOp(script, pc) ==
    LET end == Len(script) + 1
        failed(p) == [ok |-> FALSE, pc |-> p, opcode |-> OP_INVALIDOPCODE, vch |-> <<>>]
    IN  IF pc >= end THEN failed(pc)
        ELSE LET opcode == script[pc]
                 p1 == pc + 1
                 lenBytes == IF opcode < OP_PUSHDATA1 THEN 0
                             ELSE IF opcode = OP_PUSHDATA1 THEN 1
                             ELSE IF opcode = OP_PUSHDATA2 THEN 2 ELSE 4
                 p2 == p1 + lenBytes
                 nSize == IF opcode < OP_PUSHDATA1 THEN opcode
                          ELSE ReadLE(SubSeq(script, p1, p2 - 1))
             IN  IF opcode > OP_PUSHDATA4
                 THEN [ok |-> TRUE, pc |-> p1, opcode |-> opcode, vch |-> <<>>]
                 ELSE IF end - p1 < lenBytes THEN failed(p1)
                 ELSE IF end - p2 < nSize THEN failed(p2)
                 ELSE [ok |-> TRUE, pc |-> p2 + nSize, opcode |-> opcode,
                       vch |-> SubSeq(script, p2, p2 + nSize - 1)]

\* CScript::IsUnspendable
IsUnspendable(script) ==
    (Len(script) > 0 /\ script[1] = OP_RETURN) \/ Len(script) > MAX_SCRIPT_SIZE

RECURSIVE Pow256(_)
Pow256(k) == IF k = 0 THEN 1 ELSE 256 * Pow256(k - 1)

RECURSIVE SumLE(_, _)
\* bytes[1] + 256 * bytes[2] + ... over the first k bytes
SumLE(bytes, k) == IF k = 0 THEN 0 ELSE SumLE(bytes, k - 1) + bytes[k] * Pow256(k - 1)

\* CScriptNum(vch, false).getint() for at most 4 bytes: little-endian
\* magnitude, the top bit of the last byte the sign
CScriptNumGetInt(vch) ==
    LET n == Len(vch)
    IN  IF n = 0 THEN 0
        ELSE LET mag == SumLE(vch, n - 1) + (vch[n] % 128) * Pow256(n - 1)
             IN  IF vch[n] >= 128 THEN 0 - mag ELSE mag

\* strprintf("%d", n) of an int
FmtInt(n) == IF n < 0 THEN "-" \o DecStr(0 - n) ELSE DecStr(n)

HexDigit(n) == SubSeq("0123456789abcdef", n + 1, n + 1)

RECURSIVE HexStr(_)
HexStr(vch) ==
    IF Len(vch) = 0 THEN ""
    ELSE HexDigit(vch[1] \div 16) \o HexDigit(vch[1] % 16) \o HexStr(Tail(vch))

\* IsValidSignatureEncoding (interpreter.cpp): strict DER followed by one
\* hash type byte; sig[k] of the code is sig[k + 1] here
IsValidSignatureEncoding(sig) ==
    LET at(k) == sig[k + 1]
        size == Len(sig)
    IN  /\ size >= 9 /\ size <= 73
        /\ at(0) = 48
        /\ at(1) = size - 3
        /\ LET lenR == at(3)
           IN  /\ 5 + lenR < size
               /\ LET lenS == at(5 + lenR)
                  IN  /\ lenR + lenS + 7 = size
                      /\ at(2) = 2
                      /\ lenR # 0
                      /\ at(4) < 128
                      /\ ~(lenR > 1 /\ at(4) = 0 /\ at(5) < 128)
                      /\ at(lenR + 4) = 2
                      /\ lenS # 0
                      /\ at(lenR + 6) < 128
                      /\ ~(lenS > 1 /\ at(lenR + 6) = 0 /\ at(lenR + 7) < 128)

\* IsDefinedHashtypeSignature
IsDefinedHashtypeSignature(sig) ==
    /\ Len(sig) > 0
    /\ LET nHashType == sig[Len(sig)] % SIGHASH_ANYONECANPAY
       IN  nHashType >= SIGHASH_ALL /\ nHashType <= SIGHASH_SINGLE

\* CheckSignatureEncoding(vchSig, SCRIPT_VERIFY_STRICTENC, NULL)
CheckSignatureEncoding(vchSig) ==
    \/ Len(vchSig) = 0
    \/ IsValidSignatureEncoding(vchSig) /\ IsDefinedHashtypeSignature(vchSig)

\* mapSigHashTypes: hash type byte -> name
mapSigHashTypes ==
    (SIGHASH_ALL :> "ALL")
        @@ (SIGHASH_ALL + SIGHASH_ANYONECANPAY :> "ALL|ANYONECANPAY")
        @@ (SIGHASH_NONE :> "NONE")
        @@ (SIGHASH_NONE + SIGHASH_ANYONECANPAY :> "NONE|ANYONECANPAY")
        @@ (SIGHASH_SINGLE :> "SINGLE")
        @@ (SIGHASH_SINGLE + SIGHASH_ANYONECANPAY :> "SINGLE|ANYONECANPAY")

\* vch.pop_back()
PopBack(vch) == SubSeq(vch, 1, Len(vch) - 1)

(***************************************************************************)
(* ScriptToAsmStr.  Besides the text each pass of the loop records what it *)
(* did: the opcode and payload GetOp gave, the text it added (token) and   *)
(* whether CheckSignatureEncoding was called (sigChecked).                 *)
(***************************************************************************)
\* as SigHashDecodeText, without the IsUnspendable check
SigHashDecodeText_NoUnspendableCheck(script, vch, fAttemptSighashDecode) ==
    IF fAttemptSighashDecode
    THEN LET chSigHashType == vch[Len(vch)]
             decode == CheckSignatureEncoding(vch) /\ chSigHashType \in DOMAIN mapSigHashTypes
             strSigHashDecode == IF decode THEN "[" \o mapSigHashTypes[chSigHashType] \o "]"
                                 ELSE ""
             vch2 == IF decode THEN PopBack(vch) ELSE vch
         IN  [text |-> HexStr(vch2) \o strSigHashDecode, sigChecked |-> TRUE]
    ELSE [text |-> HexStr(vch), sigChecked |-> FALSE]

\* as SigHashDecodeText, the last byte removed whenever the signature check passes
\* and the name appended only for SIGHASH_ALL
SigHashDecodeText_PopWithoutName(script, vch, fAttemptSighashDecode) ==
    IF fAttemptSighashDecode /\ ~IsUnspendable(script)
    THEN LET chSigHashType == vch[Len(vch)]
             decode == CheckSignatureEncoding(vch)
             strSigHashDecode == IF decode /\ chSigHashType = SIGHASH_ALL
                                 THEN "[" \o mapSigHashTypes[chSigHashType] \o "]"
                                 ELSE ""
             vch2 == IF decode THEN PopBack(vch) ELSE vch
         IN  [text |-> HexStr(vch2) \o strSigHashDecode, sigChecked |-> TRUE]
    ELSE [text |-> HexStr(vch), sigChecked |-> FALSE]

\* lines 98-114: the text of a push of more than 4 bytes
SigHashDecodeText(script, vch, fAttemptSighashDecode) ==
    IF fAttemptSighashDecode /\ ~IsUnspendable(script)
    THEN LET chSigHashType == vch[Len(vch)]
             decode == CheckSignatureEncoding(vch) /\ chSigHashType \in DOMAIN mapSigHashTypes
             strSigHashDecode == IF decode THEN "[" \o mapSigHashTypes[chSigHashType] \o "]"
                                 ELSE ""
             vch2 == IF decode THEN PopBack(vch) ELSE vch
         IN  [text |-> HexStr(vch2) \o strSigHashDecode, sigChecked |-> TRUE]
    ELSE [text |-> HexStr(vch), sigChecked |-> FALSE]

\* as OpcodeText, the names stripped of "OP_" the way FormatScript strips them
OpcodeText_StripPrefix(script, opcode, vch, fAttemptSighashDecode) ==
    IF 0 <= opcode /\ opcode <= OP_PUSHDATA4
    THEN IF Len(vch) <= 4
         THEN [text |-> FmtInt(CScriptNumGetInt(vch)), sigChecked |-> FALSE]
         ELSE SigHashDecodeText(script, vch, fAttemptSighashDecode)
    ELSE [text |-> IF HasPrefix(GetOpName(opcode), "OP_")
                   THEN SubSeq(GetOpName(opcode), 4, Len(GetOpName(opcode)))
                   ELSE GetOpName(opcode),
          sigChecked |-> FALSE]

\* lines 93-118: the text of one decoded opcode
OpcodeText(script, opcode, vch, fAttemptSighashDecode) ==
    IF 0 <= opcode /\ opcode <= OP_PUSHDATA4
    THEN IF Len(vch) <= 4
         THEN [text |-> FmtInt(CScriptNumGetInt(vch)), sigChecked |-> FALSE]
         ELSE SigHashDecodeText(script, vch, fAttemptSighashDecode)
    ELSE [text |-> GetOpName(opcode), sigChecked |-> FALSE]

\* a failed GetOp that adds nothing before the return
DecodeFailureText_Silent == ""

\* lines 89-92: what a failed GetOp adds before the return
DecodeFailureText == "[error]"

RECURSIVE ScriptToAsmStrLoop(_, _, _, _, _)
\* the while loop from pc on
ScriptToAsmStrLoop(script, fAttemptSighashDecode, pc, str, trace) ==
    IF ~(pc < Len(script) + 1) THEN [str |-> str, trace |-> trace]
    ELSE LET str1 == IF str # "" THEN str \o " " ELSE str
             op == GetOp(script, pc)
         IN  IF ~op.ok
             THEN [str |-> str1 \o DecodeFailureText,
                   trace |-> Append(trace, [ok |-> FALSE, opcode |-> op.opcode,
                                            vch |-> op.vch, token |-> DecodeFailureText,
                                            sigChecked |-> FALSE])]
             ELSE LET t == OpcodeText(script, op.opcode, op.vch, fAttemptSighashDecode)
                  IN  ScriptToAsmStrLoop(script, fAttemptSighashDecode, op.pc,
                          str1 \o t.text,
                          Append(trace, [ok |-> TRUE, opcode |-> op.opcode, vch |-> op.vch,
                                         token |-> t.text, sigChecked |-> t.sigChecked]))

\* ScriptToAsmStr(script, fAttemptSighashDecode): [str, trace]
ScriptToAsmStr(script, fAttemptSighashDecode) ==
    ScriptToAsmStrLoop(script, fAttemptSighashDecode, 1, "", <<>>)

\* a DER signature of two one-byte integers followed by the hash type byte
SigBytes(hashType) == <<48, 6, 2, 1, 1, 2, 1, 1, hashType>>

\* the pieces scripts are put together from: opcodes, a 2-byte push, 5-byte
\* pushes, 9-byte pushes of a signature with a defined and an undefined hash
\* type, and a push cut short
ScriptPieces ==
    { <<OP_1>>, <<OP_2>>, <<OP_ADD>>, <<OP_RETURN>>,
      <<2, 52, 146>>,
      <<5, 1, 2, 3, 4, 1>>,
      <<9>> \o SigBytes(SIGHASH_ALL),
      <<9>> \o SigBytes(SIGHASH_SINGLE + SIGHASH_ANYONECANPAY),
      <<9>> \o SigBytes(4),
      <<5, 1, 2>> }

RECURSIVE ScriptsOf(_)
\* the scripts of n pieces
ScriptsOf(n) ==
    IF n = 0 THEN {<<>>}
    ELSE {s \o piece : s \in ScriptsOf(n - 1), piece \in ScriptPieces}

\* every one-byte script, and pushes through OP_PUSHDATA1/2/4, whole and cut
OtherScripts ==
    {<<b>> : b \in 0..255}
    \cup { <<OP_PUSHDATA1, 9>> \o SigBytes(SIGHASH_NONE),
           <<OP_PUSHDATA2, 9, 0>> \o SigBytes(SIGHASH_NONE + SIGHASH_ANYONECANPAY),
           <<OP_PUSHDATA4, 9, 0, 0, 0>> \o SigBytes(SIGHASH_SINGLE),
           <<OP_PUSHDATA1, 9>> \o SigBytes(0),
           <<OP_PUSHDATA1, 9>> \o SigBytes(132),
           <<OP_1, OP_PUSHDATA2, 9>>,
           <<OP_1, OP_PUSHDATA4, 0, 0, 0, 128>>,
           <<OP_1, OP_PUSHDATA4, 1, 0, 0, 1, 7>>,
           <<OP_PUSHDATA1, 4, 255, 255, 255, 255, OP_16>>,
           <<1, 128, OP_0, OP_1NEGATE, OP_CHECKMULTISIGVERIFY, OP_NOP1, 186>> }

ScriptInputs == (UNION {ScriptsOf(n) : n \in 0..MaxOps}) \cup OtherScripts

(***************************************************************************)
(* Record projections.  A projection formats amounts with ValueFromAmount, *)
(* so it has the results that call has: a set of [fault, value].           *)
(***************************************************************************)
\* UniValue of an integer: a VNUM holding its decimal text
UniInt(n) == UniNum(FmtInt(n))

\* flags & bit, for a bit that is a power of two
HasFlag(flags, bit) == (flags \div bit) % 2 = 1

\* CTokenOutput::ToUniValue
CTokenOutput_ToUniValue(o) ==
    { IF v.fault THEN [fault |-> TRUE, value |-> NullUniValue]
      ELSE [fault |-> FALSE,
            value |-> PushKV(PushKV(PushKV(UniObj,
                          "version", UniInt(o.nVersion)),
                          "currencyid", UniStr(IF IsNull(o.currencyID) THEN "NULL"
                                               ELSE EncodeDestination(CIdentityID(o.currencyID)))),
                          "value", v.value)]
      : v \in ValueFromAmount(o.nValue) }

\* CReserveTransfer::EOptions (pbaas/reserves.h)
CONVERT == 2

PRECONVERT == 4

FEE_OUTPUT == 8

SEND_BACK == 16

MINT_CURRENCY == 32

PREALLOCATE == 64

\* uint160(destination.destination): the identifier the destination's bytes hold
\* (one byte here)
Uint160OfBytes(vch) == IF Len(vch) = 0 THEN 0 ELSE vch[1]

\* the switch on destination.type
TransferDestinationText(destination) ==
    CASE destination.type = "DEST_PKH" ->
             EncodeDestination(CKeyID(Uint160OfBytes(destination.destination)))
      [] destination.type = "DEST_SH" ->
             EncodeDestination(CScriptID(Uint160OfBytes(destination.destination)))
      [] destination.type = "DEST_ID" ->
             EncodeDestination(CIdentityID(Uint160OfBytes(destination.destination)))
      [] destination.type = "DEST_QUANTUM" ->
             EncodeDestination(CQuantumID(Uint160OfBytes(destination.destination)))
      [] OTHER -> HexStr(destination.destination)

\* as ReserveTransferFlags, the four flags pushed whatever the flags are
ReserveTransferFlags_NoElse(ret0, flags) ==
    LET r1 == IF HasFlag(flags, PREALLOCATE) THEN PushKV(ret0, "preallocation", UniBool(TRUE))
              ELSE IF HasFlag(flags, MINT_CURRENCY)
                   THEN PushKV(ret0, "mintedcurrency", UniBool(TRUE))
              ELSE ret0
    IN  PushKV(PushKV(PushKV(PushKV(r1,
            "convert", UniBool(HasFlag(flags, CONVERT))),
            "preconvert", UniBool(HasFlag(flags, PRECONVERT))),
            "feeoutput", UniBool(HasFlag(flags, FEE_OUTPUT))),
            "sendback", UniBool(HasFlag(flags, SEND_BACK)))

\* lines 490-504: the branch on the flags
ReserveTransferFlags(ret0, flags) ==
    IF HasFlag(flags, PREALLOCATE) THEN PushKV(ret0, "preallocation", UniBool(TRUE))
    ELSE IF HasFlag(flags, MINT_CURRENCY) THEN PushKV(ret0, "mintedcurrency", UniBool(TRUE))
    ELSE PushKV(PushKV(PushKV(PushKV(ret0,
             "convert", UniBool(HasFlag(flags, CONVERT))),
             "preconvert", UniBool(HasFlag(flags, PRECONVERT))),
             "feeoutput", UniBool(HasFlag(flags, FEE_OUTPUT))),
             "sendback", UniBool(HasFlag(flags, SEND_BACK)))

\* CReserveTransfer::ToUniValue
CReserveTransfer_ToUniValue(rt) ==
    UNION { IF base.fault THEN {[fault |-> TRUE, value |-> NullUniValue]}
            ELSE { IF fees.fault THEN [fault |-> TRUE, value |-> NullUniValue]
                   ELSE [fault |-> FALSE,
                         value |-> PushKV(PushKV(PushKV(
                                       ReserveTransferFlags(base.value, rt.flags),
                                       "fees", fees.value),
                                       "destinationcurrencyid",
                                       UniStr(EncodeDestination(CIdentityID(rt.destCurrencyID)))),
                                       "destination",
                                       UniStr(TransferDestinationText(rt.destination)))]
                   : fees \in ValueFromAmount(rt.nFees) }
            : base \in CTokenOutput_ToUniValue(rt) }

\* the transfers the model projects: every set of the seven flag bits (VALID is
\* bit 1), a null and a non-null currency, every destination type and one the
\* switch does not know; the fees are zero, positive, or INT64_MIN
ReserveTransferInputs ==
    [nVersion : {1}, currencyID : {0, 1}, nValue : {FromInt(100000000)},
     flags : 0..127, nFees : {FromInt(0), FromInt(20000), INT64_MIN}, destCurrencyID : {MaxId},
     destination : [type : {"DEST_PKH", "DEST_SH", "DEST_ID", "DEST_QUANTUM", "DEST_PK"},
                    destination : {<<1>>}]]

(***************************************************************************)
(* ScriptPubKeyToUniv (4 arguments).  What ExtractDestinations and         *)
(* IsPayToCryptoCondition say of the script comes with it: scriptPubKey is *)
(* [bytes, type, addresses, nRequired, isCC, p], p the COptCCParams.  A    *)
(* payload of p.vData is the record it decodes to, of which only the       *)
(* answer of IsValid() is kept.                                            *)
(***************************************************************************)
\* COptCCParams::VERSION_V2
VERSION_V2 == 2

\* record.ToUniValue() of a decoded payload: some object
RecordProjection(payload) == PushKV(UniObj, "version", UniInt(payload.nVersion))

\* the pattern of the decoding cases: the projection under key when there is a
\* payload and its record is valid, "invalid" under key otherwise
ProjectionOrInvalid(out, key, p) ==
    IF Len(p.vData) > 0 /\ p.vData[1].valid
    THEN PushKV(out, key, RecordProjection(p.vData[1]))
    ELSE PushKV(out, key, UniStr("invalid"))

\* as EvalCodeSwitch without the default case
EvalCodeSwitch_NoDefault(out, p) ==
    CASE p.evalCode = "EVAL_CURRENCY_DEFINITION" -> ProjectionOrInvalid(out, "currencydefinition", p)
      [] p.evalCode = "EVAL_SERVICEREWARD" -> ProjectionOrInvalid(out, "pbaasServiceReward", p)
      [] p.evalCode \in {"EVAL_EARNEDNOTARIZATION", "EVAL_ACCEPTEDNOTARIZATION"} ->
             ProjectionOrInvalid(out, "pbaasNotarization", p)
      [] p.evalCode = "EVAL_FINALIZENOTARIZATION" ->
             IF Len(p.vData) > 0
             THEN PushKV(out, "pbaasFinalization", RecordProjection(p.vData[1]))
             ELSE out
      [] p.evalCode = "EVAL_CURRENCYSTATE" -> ProjectionOrInvalid(out, "currencystate", p)
      [] p.evalCode = "EVAL_RESERVE_TRANSFER" -> ProjectionOrInvalid(out, "reservetransfer", p)
      [] p.evalCode = "EVAL_RESERVE_OUTPUT" -> ProjectionOrInvalid(out, "reserveoutput", p)
      [] p.evalCode = "EVAL_RESERVE_EXCHANGE" -> ProjectionOrInvalid(out, "reserveexchange", p)
      [] p.evalCode = "EVAL_RESERVE_DEPOSIT" -> ProjectionOrInvalid(out, "reservedeposit", p)
      [] p.evalCode = "EVAL_CROSSCHAIN_EXPORT" -> ProjectionOrInvalid(out, "crosschainexport", p)
      [] p.evalCode = "EVAL_CROSSCHAIN_IMPORT" -> ProjectionOrInvalid(out, "crosschainimport", p)
      [] p.evalCode = "EVAL_IDENTITY_PRIMARY" -> ProjectionOrInvalid(out, "identityprimary", p)
      [] p.evalCode = "EVAL_IDENTITY_REVOKE" -> PushKV(out, "identityrevoke", UniStr(""))
      [] p.evalCode = "EVAL_IDENTITY_RECOVER" -> PushKV(out, "identityrecover", UniStr(""))
      [] p.evalCode = "EVAL_IDENTITY_COMMITMENT" -> PushKV(out, "identitycommitment", UniStr(""))
      [] p.evalCode = "EVAL_IDENTITY_RESERVATION" -> PushKV(out, "identityreservation", UniStr(""))
      [] p.evalCode = "EVAL_STAKEGUARD" -> PushKV(out, "stakeguard", UniStr(""))
      [] p.evalCode = "EVAL_IDENTITY_EXPORT" -> ProjectionOrInvalid(out, "identityexport", p)
      [] OTHER -> out

\* lines 632-849: switch (p.evalCode)
EvalCodeSwitch(out, p) ==
    CASE p.evalCode = "EVAL_CURRENCY_DEFINITION" -> ProjectionOrInvalid(out, "currencydefinition", p)
      [] p.evalCode = "EVAL_SERVICEREWARD" -> ProjectionOrInvalid(out, "pbaasServiceReward", p)
      [] p.evalCode \in {"EVAL_EARNEDNOTARIZATION", "EVAL_ACCEPTEDNOTARIZATION"} ->
             ProjectionOrInvalid(out, "pbaasNotarization", p)
      [] p.evalCode = "EVAL_FINALIZENOTARIZATION" ->
             IF Len(p.vData) > 0
             THEN PushKV(out, "pbaasFinalization", RecordProjection(p.vData[1]))
             ELSE out
      [] p.evalCode = "EVAL_CURRENCYSTATE" -> ProjectionOrInvalid(out, "currencystate", p)
      [] p.evalCode = "EVAL_RESERVE_TRANSFER" -> ProjectionOrInvalid(out, "reservetransfer", p)
      [] p.evalCode = "EVAL_RESERVE_OUTPUT" -> ProjectionOrInvalid(out, "reserveoutput", p)
      [] p.evalCode = "EVAL_RESERVE_EXCHANGE" -> ProjectionOrInvalid(out, "reserveexchange", p)
      [] p.evalCode = "EVAL_RESERVE_DEPOSIT" -> ProjectionOrInvalid(out, "reservedeposit", p)
      [] p.evalCode = "EVAL_CROSSCHAIN_EXPORT" -> ProjectionOrInvalid(out, "crosschainexport", p)
      [] p.evalCode = "EVAL_CROSSCHAIN_IMPORT" -> ProjectionOrInvalid(out, "crosschainimport", p)
      [] p.evalCode = "EVAL_IDENTITY_PRIMARY" -> ProjectionOrInvalid(out, "identityprimary", p)
      [] p.evalCode = "EVAL_IDENTITY_REVOKE" -> PushKV(out, "identityrevoke", UniStr(""))
      [] p.evalCode = "EVAL_IDENTITY_RECOVER" -> PushKV(out, "identityrecover", UniStr(""))
      [] p.evalCode = "EVAL_IDENTITY_COMMITMENT" -> PushKV(out, "identitycommitment", UniStr(""))
      [] p.evalCode = "EVAL_IDENTITY_RESERVATION" -> PushKV(out, "identityreservation", UniStr(""))
      [] p.evalCode = "EVAL_STAKEGUARD" -> PushKV(out, "stakeguard", UniStr(""))
      [] p.evalCode = "EVAL_IDENTITY_EXPORT" -> ProjectionOrInvalid(out, "identityexport", p)
      [] OTHER -> PushKV(out, "unknown", UniStr(""))

RECURSIVE EncodeAll(_)
\* the array of the encoded addresses
EncodeAll(addresses) ==
    IF Len(addresses) = 0 THEN UniArr
    ELSE PushBack(EncodeAll(SubSeq(addresses, 1, Len(addresses) - 1)),
                  UniStr(EncodeDestination(addresses[Len(addresses)])))

\* ScriptPubKeyToUniv(scriptPubKey, out, fIncludeHex, fIncludeAsm): out afterwards
ScriptPubKeyToUniv(scriptPubKey, out, fIncludeHex, fIncludeAsm) ==
    LET out0 == IF out.typ # "VOBJ" THEN UniObj ELSE out
        out1 == PushKV(out0, "type", UniStr(scriptPubKey.type))
        p == scriptPubKey.p
        out2 == IF scriptPubKey.isCC /\ p.version >= VERSION_V2
                THEN EvalCodeSwitch(out1, p) ELSE out1
        out3 == IF Len(scriptPubKey.addresses) > 0
                THEN PushKV(PushKV(out2, "reqSigs", UniInt(scriptPubKey.nRequired)),
                            "addresses", EncodeAll(scriptPubKey.addresses))
                ELSE out2
        out4 == IF fIncludeAsm
                THEN PushKV(out3, "asm", UniStr(ScriptToAsmStr(scriptPubKey.bytes, FALSE).str))
                ELSE out3
    IN  IF fIncludeHex THEN PushKV(out4, "hex", UniStr(HexStr(scriptPubKey.bytes))) ELSE out4

\* the evaluation codes of the switch
KnownEvalCodes ==
    {"EVAL_CURRENCY_DEFINITION", "EVAL_SERVICEREWARD", "EVAL_EARNEDNOTARIZATION",
     "EVAL_ACCEPTEDNOTARIZATION", "EVAL_FINALIZENOTARIZATION", "EVAL_CURRENCYSTATE",
     "EVAL_RESERVE_TRANSFER", "EVAL_RESERVE_OUTPUT", "EVAL_RESERVE_EXCHANGE",
     "EVAL_RESERVE_DEPOSIT", "EVAL_CROSSCHAIN_EXPORT", "EVAL_CROSSCHAIN_IMPORT",
     "EVAL_IDENTITY_PRIMARY", "EVAL_IDENTITY_REVOKE", "EVAL_IDENTITY_RECOVER",
     "EVAL_IDENTITY_COMMITMENT", "EVAL_IDENTITY_RESERVATION", "EVAL_STAKEGUARD",
     "EVAL_IDENTITY_EXPORT"}

\* the scripts the model projects: every known evaluation code and two the
\* switch does not know, versions below, at and above VERSION_V2, no payload, a
\* valid and an invalid one, with and without addresses
ScriptPubKeyInputs ==
    [bytes : {<<OP_1>>}, type : {"cryptocondition"},
     addresses : {<<>>, <<CKeyID(1)>>}, nRequired : {1}, isCC : BOOLEAN,
     p : [version : 1..3, evalCode : KnownEvalCodes \cup {"EVAL_NONE", "EVAL_IMPORTPAYOUT"},
          vData : {<<>>, <<[valid |-> TRUE, nVersion |-> 1]>>,
                   <<[valid |-> FALSE, nVersion |-> 0]>>}]]

\* the out handed in: no object, or an object that holds a key already
OutInputs == {NullUniValue, PushKV(UniObj, "value", UniNum("1.00000000"))}

(***************************************************************************)
(* The projections below call ValueFromAmount many times.  A build either  *)
(* traps on the overflow of -INT64_MIN or wraps, so a projection is        *)
(* computed for a build: trap says which.  Each returns [fault, value].    *)
(***************************************************************************)
\* ValueFromAmount(amount) on the build
ValueFromAmountOn(trap, amount) ==
    CHOOSE o \in ValueFromAmount(amount) : amount = INT64_MIN => o.fault = trap

\* as AtOrZero, an index past the end read as the last entry
AtOrZero_Clamped(v, i) ==
    IF i < Len(v) THEN v[i + 1] ELSE IF Len(v) > 0 THEN v[Len(v)] ELSE FromInt(0)

\* i < v.size() ? v[i] : 0, i counting from 0
AtOrZero(v, i) == IF i < Len(v) THEN v[i + 1] ELSE FromInt(0)

\* the amounts among those a projection formats at which the build traps
Trapped(trap, amounts) == trap /\ INT64_MIN \in amounts

\* the elements of a sequence
Range(v) == {v[k] : k \in 1..Len(v)}

\* CCurrencyState::VALID (pbaas/reserves.h)
VALID == 1

\* CCurrencyState::ISRESERVE
ISRESERVE == 2

\* CCurrencyState::IsValid
CCurrencyState_IsValid(s) == HasFlag(s.flags, VALID)

\* CCurrencyState::IsReserve
CCurrencyState_IsReserve(s) == HasFlag(s.flags, ISRESERVE)

\* CCurrencyState::PriceInReserve(i): the pricing function, taken as given; the
\* state carries the price it answers for each member
PriceInReserve(s, i) == s.prices[i + 1]

RECURSIVE ReserveCurrenciesLoop(_, _, _, _)
\* lines 246-254: the loop over the basket from member i on
ReserveCurrenciesLoop(trap, s, i, currencyArr) ==
    IF i >= Len(s.currencies) THEN currencyArr
    ELSE LET currencyObj ==
                 PushKV(PushKV(PushKV(PushKV(UniObj,
                     "currencyid", UniStr(EncodeDestination(CIdentityID(s.currencies[i + 1])))),
                     "weight", ValueFromAmountOn(trap, AtOrZero(s.weights, i)).value),
                     "reserves", ValueFromAmountOn(trap, AtOrZero(s.reserves, i)).value),
                     "priceinreserve", ValueFromAmountOn(trap, PriceInReserve(s, i)).value)
         IN  ReserveCurrenciesLoop(trap, s, i + 1, PushBack(currencyArr, currencyObj))

\* the amounts CCurrencyState::ToUniValue hands to ValueFromAmount
CCurrencyState_Amounts(s) ==
    {s.initialSupply, s.emitted, s.supply}
    \cup (IF CCurrencyState_IsValid(s) /\ CCurrencyState_IsReserve(s)
          THEN UNION {{AtOrZero(s.weights, i), AtOrZero(s.reserves, i), PriceInReserve(s, i)}
                      : i \in 0..(Len(s.currencies) - 1)}
          ELSE {})

\* CCurrencyState::ToUniValue
CCurrencyState_ToUniValue(trap, s) ==
    LET ret0 == PushKV(UniObj, "flags", UniInt(s.flags))
        ret1 == IF CCurrencyState_IsValid(s) /\ CCurrencyState_IsReserve(s)
                THEN PushKV(ret0, "reservecurrencies",
                            ReserveCurrenciesLoop(trap, s, 0, UniArr))
                ELSE ret0
        ret2 == PushKV(PushKV(PushKV(ret1,
                    "initialsupply", ValueFromAmountOn(trap, s.initialSupply).value),
                    "emitted", ValueFromAmountOn(trap, s.emitted).value),
                    "supply", ValueFromAmountOn(trap, s.supply).value)
    IN  IF Trapped(trap, CCurrencyState_Amounts(s))
        THEN [fault |-> TRUE, value |-> NullUniValue]
        ELSE [fault |-> FALSE, value |-> ret2]

\* a basket of n members
BasketOf(n) == [i \in 1..n |-> ((i - 1) % MaxId) + 1]

\* an array of n amounts, the first of them INT64_MIN when min says so
AmountsOf(n, base, min) ==
    [i \in 1..n |-> IF min /\ i = 1 THEN INT64_MIN ELSE FromInt(base + i)]

\* the currency state of the given flags, basket size and array lengths
CurrencyStateOf(flags, n, nWeights, nReserves, min) ==
    [flags |-> flags, currencies |-> BasketOf(n),
     weights |-> AmountsOf(nWeights, 50000000, FALSE),
     reserves |-> AmountsOf(nReserves, 700000000, min),
     prices |-> AmountsOf(n, 100000000, FALSE),
     initialSupply |-> FromInt(0), emitted |-> FromInt(5), supply |-> FromInt(2100000000)]

(***************************************************************************)
(* ValueVectorsToUniValue and CCoinbaseCurrencyState::ToUniValue.  Rows    *)
(* and columns count from 0 in the code and from 1 in the sequences here.  *)
(***************************************************************************)
\* lines 277 and 289: the amount of the cell of row i and column j
TableCell(vec, columnVectors, i, j) ==
    IF columnVectors THEN AtOrZero(vec[j + 1], i) ELSE AtOrZero(vec[i + 1], j)

RECURSIVE TableRow(_, _, _, _, _, _, _)
\* the inner loop over the columns from column j on
TableRow(trap, columnNames, vec, columnVectors, i, j, row) ==
    IF j >= Len(columnNames) THEN row
    ELSE TableRow(trap, columnNames, vec, columnVectors, i, j + 1,
                  PushKV(row, columnNames[j + 1],
                         ValueFromAmountOn(trap, TableCell(vec, columnVectors, i, j)).value))

RECURSIVE TableRows(_, _, _, _, _, _, _)
\* the outer loop over the rows from row i on
TableRows(trap, rowNames, columnNames, vec, columnVectors, i, retVal) ==
    IF i >= Len(rowNames) THEN retVal
    ELSE TableRows(trap, rowNames, columnNames, vec, columnVectors, i + 1,
                   PushKV(retVal, rowNames[i + 1],
                          TableRow(trap, columnNames, vec, columnVectors, i, 0, UniObj)))

\* the amounts the table hands to ValueFromAmount
TableAmounts(rowNames, columnNames, vec, columnVectors) ==
    {TableCell(vec, columnVectors, i, j) :
        i \in 0..(Len(rowNames) - 1), j \in 0..(Len(columnNames) - 1)}

\* ValueVectorsToUniValue(rowNames, columnNames, vec, columnVectors)
ValueVectorsToUniValue(trap, rowNames, columnNames, vec, columnVectors) ==
    IF Trapped(trap, TableAmounts(rowNames, columnNames, vec, columnVectors))
    THEN [fault |-> TRUE, value |-> NullUniValue]
    ELSE [fault |-> FALSE,
          value |-> TableRows(trap, rowNames, columnNames, vec, columnVectors, 0, UniObj)]

\* line 306
CoinbaseColumnNames ==
    <<"reservein", "nativein", "reserveout", "lastconversionprice", "fees", "conversionfees">>

\* line 307
CoinbaseData(s) ==
    <<s.reserveIn, s.nativeIn, s.reserveOut, s.conversionPrice, s.fees, s.conversionFees>>

\* lines 301-305
CoinbaseRowNames(s) ==
    [i \in 1..Len(s.currencies) |-> EncodeDestination(CIdentityID(s.currencies[i]))]

\* CCoinbaseCurrencyState::ToUniValue
CCoinbaseCurrencyState_ToUniValue(trap, s) ==
    LET base == CCurrencyState_ToUniValue(trap, s)
        table == ValueVectorsToUniValue(trap, CoinbaseRowNames(s), CoinbaseColumnNames,
                                        CoinbaseData(s), TRUE)
    IN  IF base.fault \/ table.fault THEN [fault |-> TRUE, value |-> NullUniValue]
        ELSE [fault |-> FALSE,
              value |-> PushKV(PushKV(PushKV(base.value,
                            "currencies", table.value),
                            "nativefees", UniNum(FmtD(s.nativeFees))),
                            "nativeconversionfees", UniNum(FmtD(s.nativeConversionFees)))]

\* the coinbase currency state of a basket of n members whose six flow arrays
\* have the lengths lens gives, reserveIn beginning with INT64_MIN when min says so
\* (the calls take every length for reserveIn and nativeIn, none or MaxBasket
\* for each of the other four)
CoinbaseStateOf(n, lens, min) ==
    CurrencyStateOf(VALID + ISRESERVE, n, n, n, FALSE) @@
    [reserveIn |-> AmountsOf(lens[1], 1000, min), nativeIn |-> AmountsOf(lens[2], 2000, FALSE),
     reserveOut |-> AmountsOf(lens[3], 3000, FALSE),
     conversionPrice |-> AmountsOf(lens[4], 4000, FALSE),
     fees |-> AmountsOf(lens[5], 5000, FALSE),
     conversionFees |-> AmountsOf(lens[6], 6000, FALSE),
     nativeFees |-> FromInt(10000), nativeConversionFees |-> FromInt(250)]

(***************************************************************************)
(* CPBaaSNotarization::ToUniValue.  A uint256 or arith_uint256 is carried  *)
(* as its 32 bytes, least significant first; base_uint keeps 32-bit limbs, *)
(* and a shift by a multiple of 32 bits moves whole limbs, so whole bytes. *)
(***************************************************************************)
\* bytes of a uint256
UINT256_BYTES == 32

\* bytes of a uint160
UINT160_BYTES == 20

\* the shift of lines 324 and 325, in bits
POWER_SHIFT == 128

Reverse(v) == [i \in 1..Len(v) |-> v[Len(v) + 1 - i]]

\* uint256::GetHex and arith_uint256::ToString: the bytes in hex, most
\* significant first
GetHex(bytes) == HexStr(Reverse(bytes))

\* the uint160 of an identifier of the model
Uint160Bytes(id) == [i \in 1..UINT160_BYTES |-> IF i = 1 THEN id ELSE 0]

\* base_uint::operator<<, for a shift that is a multiple of 8 bits: the bytes
\* pushed past the top are lost
ShiftLeft(a, shift) ==
    LET k == shift \div 8
    IN  [i \in 1..Len(a) |-> IF i - k >= 1 THEN a[i - k] ELSE 0]

\* base_uint::operator>>, for a shift that is a multiple of 8 bits
ShiftRight(a, shift) ==
    LET k == shift \div 8
    IN  [i \in 1..Len(a) |-> IF i + k <= Len(a) THEN a[i + k] ELSE 0]

\* as PowerWork, the high bits left in
PowerWork_Unmasked(compactPower) == compactPower

\* line 324: (UintToArith256(compactPower) << 128) >> 128
PowerWork(compactPower) == ShiftRight(ShiftLeft(compactPower, POWER_SHIFT), POWER_SHIFT)

\* line 325: UintToArith256(compactPower) >> 128
PowerStake(compactPower) == ShiftRight(compactPower, POWER_SHIFT)

\* CNodeData::ToUniValue
CNodeData_ToUniValue(node) ==
    PushKV(PushKV(UniObj,
        "networkaddress", UniStr(node.networkAddress)),
        "nodeidentity", UniStr(EncodeDestination(CIdentityID(node.nodeIdentity))))

RECURSIVE NodesLoop(_, _)
\* lines 332-335
NodesLoop(nodes, nodesUni) ==
    IF Len(nodes) = 0 THEN nodesUni
    ELSE NodesLoop(Tail(nodes), PushBack(nodesUni, CNodeData_ToUniValue(Head(nodes))))

\* CPBaaSNotarization::ToUniValue
CPBaaSNotarization_ToUniValue(trap, nz) ==
    LET state == CCoinbaseCurrencyState_ToUniValue(trap, nz.currencyState)
        obj == PushKV(PushKV(PushKV(PushKV(PushKV(PushKV(PushKV(PushKV(PushKV(PushKV(
               PushKV(PushKV(PushKV(PushKV(UniObj,
                   "version", UniInt(nz.nVersion)),
                   "chainid", UniStr(GetHex(Uint160Bytes(nz.systemID)))),
                   "notaryaddress", UniStr(EncodeDestination(nz.notaryDest))),
                   "notarizationheight", UniInt(nz.notarizationHeight)),
                   "mmrroot", UniStr(GetHex(nz.mmrRoot))),
                   "notarizationprehash", UniStr(GetHex(nz.notarizationPreHash))),
                   "work", UniStr(GetHex(PowerWork(nz.compactPower)))),
                   "stake", UniStr(GetHex(PowerStake(nz.compactPower)))),
                   "currencystate", state.value),
                   "prevnotarization", UniStr(GetHex(nz.prevNotarization))),
                   "prevheight", UniInt(nz.prevHeight)),
                   "crossnotarization", UniStr(GetHex(nz.crossNotarization))),
                   "crossheight", UniInt(nz.crossHeight)),
                   "nodes", NodesLoop(nz.nodes, UniArr))
    IN  IF state.fault THEN [fault |-> TRUE, value |-> NullUniValue]
        ELSE [fault |-> FALSE, value |-> obj]

\* 128-bit halves the model puts together into a compactPower: zero, one, the
\* top bit alone, all bits, and two mixed patterns
HalfInputs ==
    LET n == UINT256_BYTES \div 2
    IN  {[i \in 1..n |-> 0], [i \in 1..n |-> IF i = 1 THEN 1 ELSE 0],
         [i \in 1..n |-> IF i = n THEN 128 ELSE 0], [i \in 1..n |-> 255],
         [i \in 1..n |-> i], [i \in 1..n |-> 255 - (7 * i)]}

\* the notarization of the given compactPower and nodes
NotarizationOf(compactPower, nodes) ==
    [nVersion |-> 1, systemID |-> 1, notaryDest |-> CIdentityID(MaxId),
     notarizationHeight |-> 1000, mmrRoot |-> [i \in 1..UINT256_BYTES |-> i],
     notarizationPreHash |-> [i \in 1..UINT256_BYTES |-> 2 * i],
     compactPower |-> compactPower,
     currencyState |-> CoinbaseStateOf(1, <<1, 0, 0, 0, 0, 0>>, FALSE),
     prevNotarization |-> [i \in 1..UINT256_BYTES |-> 0], prevHeight |-> 990,
     crossNotarization |-> [i \in 1..UINT256_BYTES |-> 3 * i], crossHeight |-> 7,
     nodes |-> nodes]

NodesInputs == {<<>>, <<[networkAddress |-> "127.0.0.1:1", nodeIdentity |-> 1]>>}

(***************************************************************************)
(* CCurrencyDefinition::ToUniValue.  GetID() is the identifier the         *)
(* definition's name and parent hash to, carried by the definition here.   *)
(***************************************************************************)
\* UniValue of an int64_t
UniInt64(a) == UniNum(FmtD(a))

RECURSIVE IdArray(_, _)
\* the loops that push EncodeDestination(CIdentityID(x)) for each x
IdArray(ids, arr) ==
    IF Len(ids) = 0 THEN arr
    ELSE IdArray(Tail(ids), PushBack(arr, UniStr(EncodeDestination(CIdentityID(Head(ids))))))

RECURSIVE AmountArray(_, _, _)
\* the loops that push ValueFromAmount(x) for each x
AmountArray(trap, amounts, arr) ==
    IF Len(amounts) = 0 THEN arr
    ELSE AmountArray(trap, Tail(amounts),
                     PushBack(arr, ValueFromAmountOn(trap, Head(amounts)).value))

RECURSIVE PreAllocationArray(_, _, _)
\* lines 434-440
PreAllocationArray(trap, preAllocation, arr) ==
    IF Len(preAllocation) = 0 THEN arr
    ELSE LET one == Head(preAllocation)
             key == IF IsNull(one.first) THEN "blockoneminer"
                    ELSE EncodeDestination(CIdentityID(one.first))
         IN  PreAllocationArray(trap, Tail(preAllocation),
                 PushBack(arr, PushKV(UniObj, key, ValueFromAmountOn(trap, one.second).value)))

\* if (v.size()) obj.push_back(Pair(key, arr))
PushIfAny(obj, v, key, arr) == IF Len(v) > 0 THEN PushKV(obj, key, arr) ELSE obj

\* line 465: the bound of the era loop
EraCount(d) == Len(d.rewards)

RECURSIVE ErasLoop(_, _, _)
\* lines 465-473, from era i on
ErasLoop(d, i, eraArr) ==
    IF i >= EraCount(d) THEN eraArr
    ELSE ErasLoop(d, i + 1,
             PushBack(eraArr,
                 PushKV(PushKV(PushKV(PushKV(UniObj,
                     "reward", UniInt64(AtOrZero(d.rewards, i))),
                     "decay", UniInt64(AtOrZero(d.rewardsDecay, i))),
                     "halving", UniInt64(AtOrZero(d.halving, i))),
                     "eraend", UniInt64(AtOrZero(d.eraEnd, i)))))

\* the amounts CCurrencyDefinition::ToUniValue hands to ValueFromAmount
CCurrencyDefinition_Amounts(d) ==
    Range(d.weights) \cup Range(d.conversions) \cup Range(d.minPreconvert)
        \cup Range(d.maxPreconvert) \cup Range(d.contributions) \cup Range(d.preconverted)
        \cup {one.second : one \in Range(d.preAllocation)}
        \cup (IF d.preAllocationRatio # FromInt(0) THEN {d.preAllocationRatio} ELSE {})

\* CCurrencyDefinition::ToUniValue
CCurrencyDefinition_ToUniValue(trap, d) ==
    LET o1 == PushKV(PushKV(PushKV(PushKV(PushKV(PushKV(PushKV(PushKV(PushKV(PushKV(UniObj,
                  "name", UniStr(d.name)),
                  "version", UniInt(d.nVersion)),
                  "options", UniInt(d.options)),
                  "parent", UniStr(EncodeDestination(CIdentityID(d.parent)))),
                  "systemid", UniStr(EncodeDestination(CIdentityID(d.systemID)))),
                  "currencyid", UniStr(EncodeDestination(CIdentityID(d.id)))),
                  "notarizationprotocol", UniInt(d.notarizationProtocol)),
                  "proofprotocol", UniInt(d.proofProtocol)),
                  "idregistrationprice", UniInt64(d.idRegistrationAmount)),
                  "idreferrallevels", UniInt(d.idReferralLevels))
        o2 == PushIfAny(o1, d.notaries, "notaries", IdArray(d.notaries, UniArr))
        o3 == PushKV(PushKV(PushKV(PushKV(PushKV(o2,
                  "minnotariesconfirm", UniInt(d.minNotariesConfirm)),
                  "billingperiod", UniInt(d.billingPeriod)),
                  "notarizationreward", UniInt64(d.notarizationReward)),
                  "startblock", UniInt(d.startBlock)),
                  "endblock", UniInt(d.endBlock))
        o4 == PushIfAny(o3, d.currencies, "currencies", IdArray(d.currencies, UniArr))
        o5 == PushIfAny(o4, d.weights, "weights", AmountArray(trap, d.weights, UniArr))
        o6 == PushIfAny(o5, d.conversions, "conversions",
                        AmountArray(trap, d.conversions, UniArr))
        o7 == PushIfAny(o6, d.minPreconvert, "minpreconversion",
                        AmountArray(trap, d.minPreconvert, UniArr))
        o8 == PushIfAny(o7, d.maxPreconvert, "maxpreconversion",
                        AmountArray(trap, d.maxPreconvert, UniArr))
        o9 == IF d.preAllocationRatio # FromInt(0)
              THEN PushKV(o8, "preallocationratio",
                          ValueFromAmountOn(trap, d.preAllocationRatio).value)
              ELSE o8
        o10 == PushIfAny(o9, d.preAllocation, "preallocation",
                         PreAllocationArray(trap, d.preAllocation, UniArr))
        o11 == PushIfAny(o10, d.contributions, "initialcontributions",
                         AmountArray(trap, d.contributions, UniArr))
        o12 == PushIfAny(o11, d.preconverted, "preconversions",
                         AmountArray(trap, d.preconverted, UniArr))
    IN  IF Trapped(trap, CCurrencyDefinition_Amounts(d))
        THEN [fault |-> TRUE, value |-> NullUniValue]
        ELSE [fault |-> FALSE, value |-> PushKV(o12, "eras", ErasLoop(d, 0, UniArr))]

\* the definition whose nine optional sequences have the lengths lens gives,
\* whose era arrays have the lengths eras gives, conversions beginning with
\* INT64_MIN when min says so
CurrencyDefinitionOf(lens, ratio, eras, min) ==
    [name |-> "VRSC", nVersion |-> 1, options |-> 1, parent |-> 0, systemID |-> 1, id |-> 1,
     notarizationProtocol |-> 1, proofProtocol |-> 1,
     idRegistrationAmount |-> Int64(FALSE, 0, 100, 0), idReferralLevels |-> 3,
     notaries |-> BasketOf(lens[1]), minNotariesConfirm |-> 1, billingPeriod |-> 1440,
     notarizationReward |-> FromInt(1000000), startBlock |-> 1, endBlock |-> 0,
     currencies |-> BasketOf(lens[2]), weights |-> AmountsOf(lens[3], 50000000, FALSE),
     conversions |-> AmountsOf(lens[4], 100000000, min),
     minPreconvert |-> AmountsOf(lens[5], 10, FALSE),
     maxPreconvert |-> AmountsOf(lens[6], 1000, FALSE),
     preAllocationRatio |-> FromInt(ratio),
     preAllocation |-> [i \in 1..lens[7] |-> [first |-> i - 1, second |-> FromInt(700 + i)]],
     contributions |-> AmountsOf(lens[8], 20, FALSE),
     preconverted |-> AmountsOf(lens[9], 30, FALSE),
     rewards |-> AmountsOf(eras[1], 1200000000, FALSE),
     rewardsDecay |-> AmountsOf(eras[2], 0, FALSE),
     halving |-> AmountsOf(eras[3], 43200, FALSE),
     eraEnd |-> AmountsOf(eras[4], 10080, FALSE)]

(***************************************************************************)
(* CReserveExchange::ToUniValue.                                           *)
(***************************************************************************)
\* CReserveExchange::EFlags (pbaas/reserves.h): TO_RESERVE = 0x80000
TO_RESERVE == 524288

\* LIMIT = 0x100000
LIMIT == 1048576

\* FILL_OR_KILL = 0x200000
FILL_OR_KILL == 2097152

\* ALL_OR_NONE = 0x400000
ALL_OR_NONE == 4194304

\* SEND_OUTPUT = 0x800000
SEND_OUTPUT == 8388608

\* as ReserveExchangeFlags, the limit price pushed whatever the flags are
ReserveExchangeFlags_AlwaysLimit(trap, ret0, rex) ==
    LET r1 == PushKV(PushKV(PushKV(PushKV(ret0,
                  "toreserve", UniBool(HasFlag(rex.flags, TO_RESERVE))),
                  "tonative", UniBool(~HasFlag(rex.flags, TO_RESERVE))),
                  "limitorder", UniBool(HasFlag(rex.flags, LIMIT))),
                  "limitprice", ValueFromAmountOn(trap, rex.nLimit).value)
        r2 == PushKV(r1, "fillorkill", UniBool(HasFlag(rex.flags, FILL_OR_KILL)))
        r3 == IF HasFlag(rex.flags, FILL_OR_KILL)
              THEN PushKV(r2, "validbeforeblock", UniInt(rex.nValidBefore)) ELSE r2
    IN  PushKV(r3, "sendoutput", UniBool(HasFlag(rex.flags, SEND_OUTPUT)))

\* lines 537-549: what the call pushes after the token output's keys
ReserveExchangeFlags(trap, ret0, rex) ==
    LET r0 == PushKV(PushKV(PushKV(ret0,
                  "toreserve", UniBool(HasFlag(rex.flags, TO_RESERVE))),
                  "tonative", UniBool(~HasFlag(rex.flags, TO_RESERVE))),
                  "limitorder", UniBool(HasFlag(rex.flags, LIMIT)))
        r1 == IF HasFlag(rex.flags, LIMIT)
              THEN PushKV(r0, "limitprice", ValueFromAmountOn(trap, rex.nLimit).value) ELSE r0
        r2 == PushKV(r1, "fillorkill", UniBool(HasFlag(rex.flags, FILL_OR_KILL)))
        r3 == IF HasFlag(rex.flags, FILL_OR_KILL)
              THEN PushKV(r2, "validbeforeblock", UniInt(rex.nValidBefore)) ELSE r2
    IN  PushKV(r3, "sendoutput", UniBool(HasFlag(rex.flags, SEND_OUTPUT)))

\* CReserveExchange::ToUniValue
CReserveExchange_ToUniValue(trap, rex) ==
    LET base == CHOOSE b \in CTokenOutput_ToUniValue(rex) :
                    b.fault = Trapped(trap, {rex.nValue})
    IN  IF base.fault \/ (HasFlag(rex.flags, LIMIT) /\ Trapped(trap, {rex.nLimit}))
        THEN [fault |-> TRUE, value |-> NullUniValue]
        ELSE [fault |-> FALSE, value |-> ReserveExchangeFlags(trap, base.value, rex)]

\* the sum of a set of distinct flag bits
RECURSIVE FlagsOf(_)
FlagsOf(bits) ==
    IF bits = {} THEN 0
    ELSE LET b == CHOOSE x \in bits : TRUE IN b + FlagsOf(bits \ {b})

\* the exchanges the model projects: every set of the six flag bits, a limit
\* that is small or INT64_MIN
ReserveExchangeInputs ==
    [nVersion : {1}, currencyID : {1}, nValue : {FromInt(100000000)},
     flags : {FlagsOf(bits) :
                  bits \in SUBSET {VALID, TO_RESERVE, LIMIT, FILL_OR_KILL, ALL_OR_NONE, SEND_OUTPUT}},
     nLimit : {FromInt(150000000), INT64_MIN}, nValidBefore : {0, 4000}]

(***************************************************************************)
(* FormatScript.  it and it2 are positions in the script as pc is in       *)
(* ScriptToAsmStr; the result is [str, trace], trace holding for each pass *)
(* of the loop [ok, opcode, vch, token, text]: the token of the opcode and *)
(* the text the pass appended to ret.                                      *)
(***************************************************************************)
\* lines 36-53: the text appended for a decoded opcode, as [token, text]
FormatOpText(script, it2, it, op, vch) ==
    LET named == op >= OP_NOP /\ op <= OP_CHECKMULTISIGVERIFY
                     /\ HasPrefix(GetOpName(op), "OP_")
        name == GetOpName(op)
        head == "0x" \o HexStr(SubSeq(script, it2, it - Len(vch) - 1))
        data == "0x" \o HexStr(SubSeq(script, it - Len(vch), it - 1))
    IN  IF op = OP_0 THEN [token |-> "0", text |-> "0 "]
        ELSE IF (op >= OP_1 /\ op <= OP_16) \/ op = OP_1NEGATE
             THEN [token |-> FmtInt(op - OP_1NEGATE - 1),
                   text |-> FmtInt(op - OP_1NEGATE - 1) \o " "]
        ELSE IF named
             THEN [token |-> SubSeq(name, 4, Len(name)),
                   text |-> SubSeq(name, 4, Len(name)) \o " "]
        ELSE IF Len(vch) > 0
             THEN [token |-> head \o " " \o data, text |-> head \o " " \o data \o " "]
        ELSE [token |-> "0x" \o HexStr(SubSeq(script, it2, it - 1)),
              text |-> "0x" \o HexStr(SubSeq(script, it2, it - 1))]

\* line 59: ret.substr(0, ret.size() - 1); for the empty string the count
\* wraps to the largest size_t and the substring is the whole (empty) string
DropLastChar(str) == IF Len(str) = 0 THEN "" ELSE SubSeq(str, 1, Len(str) - 1)

RECURSIVE FormatScriptLoop(_, _, _, _)
\* lines 32-58: the loop from position it on, str the text of ret so far
FormatScriptLoop(script, it, str, trace) ==
    IF it > Len(script) THEN [str |-> str, trace |-> trace]
    ELSE LET r == GetOp(script, it)
         IN  IF r.ok
             THEN LET t == FormatOpText(script, it, r.pc, r.opcode, r.vch)
                  IN  FormatScriptLoop(script, r.pc, str \o t.text,
                          Append(trace, [ok |-> TRUE, opcode |-> r.opcode, vch |-> r.vch,
                                         token |-> t.token, text |-> t.text]))
             ELSE LET rest == "0x" \o HexStr(SubSeq(script, it, Len(script)))
                  IN  [str |-> str \o rest \o " ",
                       trace |-> Append(trace, [ok |-> FALSE, opcode |-> r.opcode,
                                                vch |-> <<>>, token |-> rest,
                                                text |-> rest \o " "])]

\* FormatScript(script)
FormatScript(script) ==
    LET r == FormatScriptLoop(script, 1, "", <<>>)
    IN  [str |-> DropLastChar(r.str), trace |-> r.trace]

\* the scripts the model formats: those it disassembles, and opcodes without a
\* name or data in the middle and at the end of a script
FormatScriptInputs ==
    ScriptInputs \cup {<<OP_RESERVED, OP_1>>, <<OP_1, OP_NOP1>>, <<OP_PUSHDATA1, 0>>,
                       <<OP_ADD, OP_INVALIDOPCODE, OP_ADD>>}

(***************************************************************************)
(* The calls.                                                              *)
(***************************************************************************)
Init ==
    /\ fn = "none"
    /\ arg = <<>>
    /\ ret = <<>>
    /\ fault = FALSE

CallValueFromAmount ==
    /\ fn = "none"
    /\ \E amount \in AmountInputs : \E o \in ValueFromAmount(amount) :
        /\ fn' = "ValueFromAmount"
        /\ arg' = amount
        /\ ret' = o.value
        /\ fault' = o.fault

CallCCurrencyValueMap ==
    /\ fn = "none"
    /\ \E n \in 0..MaxKeys : \E ks \in [1..n -> KeyInputs], vs \in [1..n -> ValueInputs] :
        /\ fn' = "CCurrencyValueMap"
        /\ arg' = ObjectOf(ks, vs)
        /\ ret' = CCurrencyValueMap(ObjectOf(ks, vs))
        /\ fault' = FALSE

CallCCurrencyValueMapOfNonObject ==
    /\ fn = "none"
    /\ \E uni \in NonObjectInputs :
        /\ fn' = "CCurrencyValueMap"
        /\ arg' = uni
        /\ ret' = CCurrencyValueMap(uni)
        /\ fault' = FALSE

CallCCurrencyValueMap_ToUniValue ==
    /\ fn = "none"
    /\ \E valueMap \in ValueMapInputs : \E o \in CCurrencyValueMap_ToUniValue(valueMap) :
        /\ fn' = "CCurrencyValueMap::ToUniValue"
        /\ arg' = valueMap
        /\ ret' = o.value
        /\ fault' = o.fault

\* the round trip: CCurrencyValueMap(valueMap.ToUniValue())
CallRoundTrip ==
    /\ fn = "none"
    /\ \E valueMap \in ValueMapInputs : \E o \in CCurrencyValueMap_ToUniValue(valueMap) :
        /\ fn' = "RoundTrip"
        /\ arg' = valueMap
        /\ ret' = IF o.fault THEN EmptyMap ELSE CCurrencyValueMap(o.value)
        /\ fault' = o.fault

CallScriptToAsmStr ==
    /\ fn = "none"
    /\ \E script \in ScriptInputs, fAttemptSighashDecode \in BOOLEAN :
        /\ fn' = "ScriptToAsmStr"
        /\ arg' = [script |-> script, fAttemptSighashDecode |-> fAttemptSighashDecode]
        /\ ret' = ScriptToAsmStr(script, fAttemptSighashDecode)
        /\ fault' = FALSE

CallCReserveTransfer_ToUniValue ==
    /\ fn = "none"
    /\ \E rt \in ReserveTransferInputs : \E o \in CReserveTransfer_ToUniValue(rt) :
        /\ fn' = "CReserveTransfer::ToUniValue"
        /\ arg' = rt
        /\ ret' = o.value
        /\ fault' = o.fault

CallScriptPubKeyToUniv ==
    /\ fn = "none"
    /\ \E scriptPubKey \in ScriptPubKeyInputs, out \in OutInputs,
          fIncludeHex \in BOOLEAN, fIncludeAsm \in BOOLEAN :
        /\ fn' = "ScriptPubKeyToUniv"
        /\ arg' = [scriptPubKey |-> scriptPubKey, out |-> out,
                   fIncludeHex |-> fIncludeHex, fIncludeAsm |-> fIncludeAsm]
        /\ ret' = ScriptPubKeyToUniv(scriptPubKey, out, fIncludeHex, fIncludeAsm)
        /\ fault' = FALSE

CallCCurrencyState_ToUniValue ==
    /\ fn = "none"
    /\ \E flags \in 0..3, n \in 0..MaxBasket, nWeights \in 0..MaxBasket,
          nReserves \in 0..MaxBasket, min \in BOOLEAN, trap \in BOOLEAN :
        LET s == CurrencyStateOf(flags, n, nWeights, nReserves, min)
            o == CCurrencyState_ToUniValue(trap, s)
        IN  /\ fn' = "CCurrencyState::ToUniValue"
            /\ arg' = s
            /\ ret' = o.value
            /\ fault' = o.fault

CallCCoinbaseCurrencyState_ToUniValue ==
    /\ fn = "none"
    /\ \E n \in 0..MaxBasket, nIn \in 0..MaxBasket, nNative \in 0..MaxBasket,
          rest \in [3..6 -> {0, MaxBasket}], min \in BOOLEAN, trap \in BOOLEAN :
        LET s == CoinbaseStateOf(n, <<nIn, nNative, rest[3], rest[4], rest[5], rest[6]>>, min)
            o == CCoinbaseCurrencyState_ToUniValue(trap, s)
        IN  /\ fn' = "CCoinbaseCurrencyState::ToUniValue"
            /\ arg' = s
            /\ ret' = o.value
            /\ fault' = o.fault

CallCPBaaSNotarization_ToUniValue ==
    /\ fn = "none"
    /\ \E lo \in HalfInputs, hi \in HalfInputs, nodes \in NodesInputs, trap \in BOOLEAN :
        LET nz == NotarizationOf(lo \o hi, nodes)
            o == CPBaaSNotarization_ToUniValue(trap, nz)
        IN  /\ fn' = "CPBaaSNotarization::ToUniValue"
            /\ arg' = nz
            /\ ret' = o.value
            /\ fault' = o.fault

\* the optional sequences vary, each empty or not, with one era
CallCCurrencyDefinition_ToUniValue ==
    /\ fn = "none"
    /\ \E present \in [1..9 -> BOOLEAN], ratio \in {0, 5000000},
          min \in BOOLEAN, trap \in BOOLEAN :
        LET d == CurrencyDefinitionOf([k \in 1..9 |-> IF present[k] THEN 2 - (k % 2) ELSE 0],
                                      ratio, [k \in 1..4 |-> 1], min)
            o == CCurrencyDefinition_ToUniValue(trap, d)
        IN  /\ fn' = "CCurrencyDefinition::ToUniValue"
            /\ arg' = d
            /\ ret' = o.value
            /\ fault' = o.fault

\* the four era arrays vary in length, with every optional sequence there
CallCCurrencyDefinition_ToUniValueOfEras ==
    /\ fn = "none"
    /\ \E eras \in [1..4 -> 0..MaxEras], trap \in BOOLEAN :
        LET d == CurrencyDefinitionOf([k \in 1..9 |-> 1], 0, eras, FALSE)
            o == CCurrencyDefinition_ToUniValue(trap, d)
        IN  /\ fn' = "CCurrencyDefinition::ToUniValue"
            /\ arg' = d
            /\ ret' = o.value
            /\ fault' = o.fault

CallCReserveExchange_ToUniValue ==
    /\ fn = "none"
    /\ \E rex \in ReserveExchangeInputs, trap \in BOOLEAN :
        LET o == CReserveExchange_ToUniValue(trap, rex)
        IN  /\ fn' = "CReserveExchange::ToUniValue"
            /\ arg' = rex
            /\ ret' = o.value
            /\ fault' = o.fault

CallFormatScript ==
    /\ fn = "none"
    /\ \E script \in FormatScriptInputs :
        /\ fn' = "FormatScript"
        /\ arg' = script
        /\ ret' = FormatScript(script)
        /\ fault' = FALSE

Return ==
    /\ fn # "none"
    /\ fn' = "none"
    /\ arg' = <<>>
    /\ ret' = <<>>
    /\ fault' = FALSE

Next ==
    \/ CallValueFromAmount
    \/ CallCCurrencyValueMap
    \/ CallCCurrencyValueMapOfNonObject
    \/ CallCCurrencyValueMap_ToUniValue
    \/ CallRoundTrip
    \/ CallScriptToAsmStr
    \/ CallCReserveTransfer_ToUniValue
    \/ CallScriptPubKeyToUniv
    \/ CallCCurrencyState_ToUniValue
    \/ CallCCoinbaseCurrencyState_ToUniValue
    \/ CallCPBaaSNotarization_ToUniValue
    \/ CallCCurrencyDefinition_ToUniValue
    \/ CallCCurrencyDefinition_ToUniValueOfEras
    \/ CallCReserveExchange_ToUniValue
    \/ CallFormatScript
    \/ Return

Spec == Init /\ [][Next]_vars

(***************************************************************************)
(* C3.  ValueFromAmount(a) is "-" exactly when a < 0, then |a| div 10^8 in *)
(* decimal, ".", then |a| mod 10^8 padded with zeros to 8 digits, for      *)
(* every signed 64-bit a, the most negative one included.                  *)
(***************************************************************************)
ClaimedFormat(a) ==
    (IF a.neg THEN "-" ELSE "") \o MagStr(Int64(FALSE, 0, a.d2, a.d1)) \o "."
        \o Zeros(8 - Len(DecStr(a.d0))) \o DecStr(a.d0)

\* C3: every call of ValueFromAmount returns, and returns the claimed text
C3_FormatWholeRange ==
    fn = "ValueFromAmount" =>
        /\ ~fault
        /\ ret = UniNum(ClaimedFormat(arg))
        /\ (arg = FromInt(0 - 150000000) => ret.val = "-1.50000000")
        /\ (arg = FromInt(0) => ret.val = "0.00000000")
        /\ (arg = FromInt(99999999) => ret.val = "0.99999999")

\* the same statement for every amount but INT64_MIN
FormatAboveMin ==
    (fn = "ValueFromAmount" /\ arg # INT64_MIN) =>
        /\ ~fault
        /\ ret = UniNum(ClaimedFormat(arg))
        /\ (arg = FromInt(0 - 150000000) => ret.val = "-1.50000000")
        /\ (arg = FromInt(0) => ret.val = "0.00000000")
        /\ (arg = FromInt(99999999) => ret.val = "0.99999999")

(***************************************************************************)
(* C1.  Parsing an interchange object is all-or-nothing.                   *)
(***************************************************************************)
DecodedID(uni, i) == GetDestinationID(DecodeDestination(uni.keys[i]))

\* an entry the constructor rejects wherever it stands: its key decodes to no
\* identifier, or to one an earlier entry has, or its amount does not parse
BadEntry(uni, i) ==
    \/ IsNull(DecodedID(uni, i))
    \/ \E j \in 1..(i - 1) : DecodedID(uni, j) = DecodedID(uni, i)
    \/ AmountFromValueNoErr(uni.values[i]).threw

\* C1: with a bad entry anywhere the map is empty; otherwise it holds one entry
\* per key of the object, each key's identifier with that key's amount
C1_AllOrNothing ==
    fn = "CCurrencyValueMap" =>
        /\ ~fault
        /\ IF arg.typ = "VOBJ" /\ \A i \in 1..Len(arg.keys) : ~BadEntry(arg, i)
           THEN /\ Cardinality(DOMAIN ret) = Len(arg.keys)
                /\ \A i \in 1..Len(arg.keys) :
                       /\ DecodedID(arg, i) \in DOMAIN ret
                       /\ ret[DecodedID(arg, i)] = AmountFromValueNoErr(arg.values[i]).amount
           ELSE ret = EmptyMap

\* C1 witness: a bad entry after two good ones emptied the map, and an object
\* of MaxKeys good entries was stored whole
C1_Witness_BadLast ==
    /\ fn = "CCurrencyValueMap"
    /\ arg.typ = "VOBJ" /\ Len(arg.keys) = 3
    /\ ~BadEntry(arg, 1) /\ ~BadEntry(arg, 2) /\ BadEntry(arg, 3)
    /\ DecodedID(arg, 3) = DecodedID(arg, 1)
    /\ ret = EmptyMap

(***************************************************************************)
(* C2.  CCurrencyValueMap(M.ToUniValue()) = M for every valid map M.       *)
(***************************************************************************)
\* C2: the round trip of a valid map returns and gives the map back
C2_RoundTrip ==
    (fn = "RoundTrip" /\ IsValidValueMap(arg)) => (~fault /\ ret = arg)

\* the round trip of a valid map that holds no INT64_MIN
RoundTripAboveMin ==
    (fn = "RoundTrip" /\ IsValidValueMap(arg)
        /\ \A id \in DOMAIN arg : arg[id] # INT64_MIN) => (~fault /\ ret = arg)

\* parsing undoes formatting for every amount but INT64_MIN
ParseUndoesFormat ==
    (fn = "ValueFromAmount" /\ arg # INT64_MIN) =>
        AmountFromValueNoErr(ret) = [threw |-> FALSE, amount |-> arg]

(***************************************************************************)
(* The disassembler's claims read the record of the loop's passes.         *)
(***************************************************************************)
RECURSIVE JoinTokens(_)
\* the tokens of the passes, one space between two of them
JoinTokens(trace) ==
    IF Len(trace) = 0 THEN ""
    ELSE IF Len(trace) = 1 THEN trace[1].token
    ELSE JoinTokens(SubSeq(trace, 1, Len(trace) - 1)) \o " " \o trace[Len(trace)].token

RECURSIVE FirstFailure(_, _)
\* the position at which decoding the opcodes from pc on fails, 0 when it does not
FirstFailure(script, pc) ==
    IF pc > Len(script) THEN 0
    ELSE IF ~GetOp(script, pc).ok THEN pc
    ELSE FirstFailure(script, GetOp(script, pc).pc)

\* a pass that decoded a push of more than 4 bytes
LongPush(e) == e.ok /\ e.opcode <= OP_PUSHDATA4 /\ Len(e.vch) > 4

(***************************************************************************)
(* C6.  A script whose opcode stream fails to decode at some position is   *)
(* disassembled up to that position and ends with the token "[error]".     *)
(***************************************************************************)
\* C6: the text is the text of the opcodes before the failure followed by the one
\* token "[error]", nothing follows it, the call returns, and the loop makes at
\* most one pass per byte
C6_StopsAtError ==
    fn = "ScriptToAsmStr" =>
        LET script == arg.script
            f == FirstFailure(script, 1)
            before == ScriptToAsmStr(SubSeq(script, 1, f - 1), arg.fAttemptSighashDecode)
            n == Len(ret.trace)
        IN  /\ ~fault
            /\ n <= Len(script)
            /\ ret.str = JoinTokens(ret.trace)
            /\ f > 0 =>
                 /\ ret.str = (IF before.str = "" THEN "" ELSE before.str \o " ") \o "[error]"
                 /\ n = Len(before.trace) + 1
                 /\ ret.trace[n].token = "[error]"
                 /\ \A i \in 1..(n - 1) : ret.trace[i].ok /\ ret.trace[i] = before.trace[i]
            /\ f = 0 => \A i \in 1..n : ret.trace[i].ok

\* C6 witness: an opcode, then a push cut short, with a byte left after the failure
C6_Witness_ErrorMidScript ==
    /\ fn = "ScriptToAsmStr"
    /\ arg.script = <<OP_1, 5, 1, 2, OP_ADD>>
    /\ ret.str = "1 [error]"
    /\ ~fault

(***************************************************************************)
(* C7.  No sighash suffix, and the whole payload in hex, for a push of     *)
(* more than 4 bytes when decoding was not asked for, or the script is     *)
(* unspendable, or the payload is no strictly encoded signature.           *)
(***************************************************************************)
\* C7: such a push prints as the hex of all its bytes, and an unspendable script
\* never has CheckSignatureEncoding called
C7_NoDecodeKeepsPayload ==
    fn = "ScriptToAsmStr" =>
        /\ ret.str = JoinTokens(ret.trace)
        /\ \A i \in 1..Len(ret.trace) :
               LET e == ret.trace[i]
               IN  /\ (/\ LongPush(e)
                       /\ \/ ~arg.fAttemptSighashDecode
                          \/ IsUnspendable(arg.script)
                          \/ ~CheckSignatureEncoding(e.vch))
                          => e.token = HexStr(e.vch)
                   /\ IsUnspendable(arg.script) => ~e.sigChecked

\* C7 witness: decoding asked for on an OP_RETURN script carrying a well-formed
\* signature, printed whole
C7_Witness_UnspendableSig ==
    /\ fn = "ScriptToAsmStr"
    /\ arg.fAttemptSighashDecode
    /\ arg.script = <<OP_RETURN, 9>> \o SigBytes(SIGHASH_ALL)
    /\ ret.str = "OP_RETURN 300602010102010101"

(***************************************************************************)
(* C8.  The decoded sighash type replaces the payload's last byte.         *)
(***************************************************************************)
\* the six names of the claim
ClaimedSigHashName(byte) ==
    CASE byte = 1 -> "ALL"
      [] byte = 129 -> "ALL|ANYONECANPAY"
      [] byte = 2 -> "NONE"
      [] byte = 130 -> "NONE|ANYONECANPAY"
      [] byte = 3 -> "SINGLE"
      [] byte = 131 -> "SINGLE|ANYONECANPAY"
      [] OTHER -> "?"

\* C8: on a spendable script with decoding asked for, a push of more than 4 bytes
\* that is a strictly encoded signature prints as the hex of all bytes but the
\* last followed by the bracketed name of the last; every push of more than 4
\* bytes prints either so or as the hex of all its bytes
C8_SighashReplacesLastByte ==
    fn = "ScriptToAsmStr" =>
        /\ ret.str = JoinTokens(ret.trace)
        /\ \A i \in 1..Len(ret.trace) :
               LET e == ret.trace[i]
                   last == e.vch[Len(e.vch)]
                   decoded == HexStr(SubSeq(e.vch, 1, Len(e.vch) - 1))
                                  \o "[" \o ClaimedSigHashName(last) \o "]"
               IN  LongPush(e) =>
                       /\ (/\ arg.fAttemptSighashDecode
                           /\ ~IsUnspendable(arg.script)
                           /\ CheckSignatureEncoding(e.vch))
                              => (e.token = decoded /\ ClaimedSigHashName(last) # "?")
                       /\ e.token = HexStr(e.vch) \/ e.token = decoded

\* C8 witness: a signature with SINGLE|ANYONECANPAY after OP_1, decoded
C8_Witness_Decoded ==
    /\ fn = "ScriptToAsmStr"
    /\ arg.fAttemptSighashDecode
    /\ arg.script = <<OP_1, 9>> \o SigBytes(SIGHASH_SINGLE + SIGHASH_ANYONECANPAY)
    /\ ret.str = "1 3006020101020101[SINGLE|ANYONECANPAY]"

(***************************************************************************)
(* C9.  The text of opcodes without payload.                               *)
(***************************************************************************)
\* the mnemonic with its "OP_" prefix stripped
Stripped(name) == IF HasPrefix(name, "OP_") THEN SubSeq(name, 4, Len(name)) ELSE name

NamedOpcode(opcode) == opcode >= OP_NOP /\ opcode <= OP_CHECKMULTISIGVERIFY

\* what every claim about C9 agrees on: OP_0 and the small integers
SmallIntegerTokens(e) ==
    /\ e.opcode = OP_0 => e.token = "0"
    /\ e.opcode = OP_1NEGATE => e.token = "-1"
    /\ (e.opcode >= OP_1 /\ e.opcode <= OP_16) => e.token = DecStr(e.opcode - 80)

\* C9 as stated: named opcodes print without the "OP_" prefix, OP_1 OP_2 OP_ADD
\* gives "1 2 ADD"
C9_PrefixStripped ==
    fn = "ScriptToAsmStr" =>
        /\ ret.str = JoinTokens(ret.trace)
        /\ \A i \in 1..Len(ret.trace) :
               LET e == ret.trace[i]
               IN  e.ok => /\ SmallIntegerTokens(e)
                           /\ NamedOpcode(e.opcode) =>
                                  e.token = Stripped(OpNames[e.opcode - 96])
        /\ arg.script = <<81, 82, 147>> => ret.str = "1 2 ADD"

\* C9 amended: named opcodes print as GetOpName names them, the "OP_" prefix
\* kept; OP_1 OP_2 OP_ADD gives "1 2 OP_ADD"
C9_PrefixKept ==
    fn = "ScriptToAsmStr" =>
        /\ ret.str = JoinTokens(ret.trace)
        /\ \A i \in 1..Len(ret.trace) :
               LET e == ret.trace[i]
               IN  e.ok => /\ SmallIntegerTokens(e)
                           /\ NamedOpcode(e.opcode) =>
                                  /\ e.token = OpNames[e.opcode - 96]
                                  /\ HasPrefix(e.token, "OP_")
        /\ arg.script = <<81, 82, 147>> => ret.str = "1 2 OP_ADD"

\* C9 witness: OP_1 OP_2 OP_ADD was disassembled
C9_Witness_OneTwoAdd ==
    /\ fn = "ScriptToAsmStr"
    /\ arg.script = <<OP_1, OP_2, OP_ADD>>
    /\ ret.str = "1 2 OP_ADD"

(***************************************************************************)
(* ScriptPubKeyToUniv: what the call pushed after the keys out held.       *)
(***************************************************************************)
\* how many keys out held when the call began
KeysBefore == IF arg.out.typ = "VOBJ" THEN Len(arg.out.keys) ELSE 0

\* the positions of ret the call pushed key at
EmittedAt(key) == {i \in (KeysBefore + 1)..Len(ret.keys) : ret.keys[i] = key}

\* the key of each evaluation code that decodes a record
DecoderKey ==
    [EVAL_CURRENCY_DEFINITION |-> "currencydefinition",
     EVAL_SERVICEREWARD |-> "pbaasServiceReward",
     EVAL_EARNEDNOTARIZATION |-> "pbaasNotarization",
     EVAL_ACCEPTEDNOTARIZATION |-> "pbaasNotarization",
     EVAL_FINALIZENOTARIZATION |-> "pbaasFinalization",
     EVAL_CURRENCYSTATE |-> "currencystate",
     EVAL_RESERVE_TRANSFER |-> "reservetransfer",
     EVAL_RESERVE_OUTPUT |-> "reserveoutput",
     EVAL_RESERVE_EXCHANGE |-> "reserveexchange",
     EVAL_RESERVE_DEPOSIT |-> "reservedeposit",
     EVAL_CROSSCHAIN_EXPORT |-> "crosschainexport",
     EVAL_CROSSCHAIN_IMPORT |-> "crosschainimport",
     EVAL_IDENTITY_PRIMARY |-> "identityprimary",
     EVAL_IDENTITY_EXPORT |-> "identityexport"]

\* the key of each evaluation code that only marks the output
MarkerKey ==
    [EVAL_IDENTITY_REVOKE |-> "identityrevoke",
     EVAL_IDENTITY_RECOVER |-> "identityrecover",
     EVAL_IDENTITY_COMMITMENT |-> "identitycommitment",
     EVAL_IDENTITY_RESERVATION |-> "identityreservation",
     EVAL_STAKEGUARD |-> "stakeguard"]

KindKeyOf == DecoderKey @@ MarkerKey

RecordKindKeys == {KindKeyOf[c] : c \in DOMAIN KindKeyOf}

\* the call reached the switch on the evaluation code
Dispatched ==
    /\ fn = "ScriptPubKeyToUniv"
    /\ arg.scriptPubKey.isCC
    /\ arg.scriptPubKey.p.version >= VERSION_V2

\* the payload is there and its record is valid
PayloadValid ==
    /\ Len(arg.scriptPubKey.p.vData) > 0
    /\ arg.scriptPubKey.p.vData[1].valid

\* what the claim says of a decoding evaluation code: its key once, "invalid"
\* under it unless the payload is there and valid, the projection then
InvalidOrProjection(key) ==
    /\ Cardinality(EmittedAt(key)) = 1
    /\ \A i \in EmittedAt(key) :
           ret.values[i] = IF PayloadValid
                           THEN RecordProjection(arg.scriptPubKey.p.vData[1])
                           ELSE UniStr("invalid")

\* C4: for a pay-to-condition script at or above the version threshold and
\* every evaluation code that decodes a record, finalization included, the
\* output carries the record kind's key with "invalid" when the payload is
\* missing or the record is not valid, and the projection only when it is
\* there and valid
C4_InvalidMarker ==
    (Dispatched /\ arg.scriptPubKey.p.evalCode \in DOMAIN DecoderKey) =>
        InvalidOrProjection(DecoderKey[arg.scriptPubKey.p.evalCode])

\* the same of every decoding evaluation code but finalization
InvalidMarkerButFinalization ==
    (/\ Dispatched
     /\ arg.scriptPubKey.p.evalCode \in DOMAIN DecoderKey
     /\ arg.scriptPubKey.p.evalCode # "EVAL_FINALIZENOTARIZATION") =>
        InvalidOrProjection(DecoderKey[arg.scriptPubKey.p.evalCode])

\* finalization with no payload pushes no key at all
FinalizationEmptySilent ==
    (/\ Dispatched
     /\ arg.scriptPubKey.p.evalCode = "EVAL_FINALIZENOTARIZATION"
     /\ Len(arg.scriptPubKey.p.vData) = 0) =>
        EmittedAt("pbaasFinalization") = {}

\* finalization with a payload pushes the projection, valid or not
FinalizationUnchecked ==
    (/\ Dispatched
     /\ arg.scriptPubKey.p.evalCode = "EVAL_FINALIZENOTARIZATION"
     /\ Len(arg.scriptPubKey.p.vData) > 0) =>
        \E i \in EmittedAt("pbaasFinalization") :
            ret.values[i] = RecordProjection(arg.scriptPubKey.p.vData[1])

\* C5: dispatch is gated and closed: with no pay-to-condition script or a
\* version below the threshold no record-kind key and no "unknown" key is
\* emitted; at or above the threshold an evaluation code outside the table
\* gives the key "unknown" and no record-kind key; a known evaluation code
\* never gives "unknown" and gives at most its own one key
C5_DispatchGatedAndClosed ==
    fn = "ScriptPubKeyToUniv" =>
        LET code == arg.scriptPubKey.p.evalCode
        IN  /\ ~Dispatched =>
                   \A key \in RecordKindKeys \cup {"unknown"} : EmittedAt(key) = {}
            /\ (Dispatched /\ code \notin KnownEvalCodes) =>
                   /\ Cardinality(EmittedAt("unknown")) = 1
                   /\ \A key \in RecordKindKeys : EmittedAt(key) = {}
            /\ (Dispatched /\ code \in KnownEvalCodes) =>
                   /\ EmittedAt("unknown") = {}
                   /\ Cardinality(EmittedAt(KindKeyOf[code])) <= 1
                   /\ \A key \in RecordKindKeys \ {KindKeyOf[code]} : EmittedAt(key) = {}

\* C5 witness: an evaluation code outside the table was marked "unknown"
C5_Witness_UnknownCode ==
    /\ Dispatched
    /\ arg.scriptPubKey.p.evalCode = "EVAL_IMPORTPAYOUT"
    /\ EmittedAt("unknown") # {}
    /\ arg.out.typ = "VOBJ"

(***************************************************************************)
(* CReserveTransfer::ToUniValue.                                           *)
(***************************************************************************)
FlagKeys == {"convert", "preconvert", "feeoutput", "sendback"}

FlagBitOf == [convert |-> CONVERT, preconvert |-> PRECONVERT,
              feeoutput |-> FEE_OUTPUT, sendback |-> SEND_BACK]

\* C10: exactly one flag branch applies: PREALLOCATE gives "preallocation"
\* and none of the other five; MINT_CURRENCY without PREALLOCATE gives
\* "mintedcurrency" and none of the other five; neither gives the four flag
\* keys, each the boolean of its bit, and neither of the two; fees,
\* destinationcurrencyid and destination are there in every branch
C10_OneFlagBranch ==
    (fn = "CReserveTransfer::ToUniValue" /\ ~fault) =>
        /\ HasFlag(arg.flags, PREALLOCATE) =>
               /\ CountKey(ret, "preallocation") = 1
               /\ \A key \in FlagKeys \cup {"mintedcurrency"} : ~HasKey(ret, key)
        /\ (HasFlag(arg.flags, MINT_CURRENCY) /\ ~HasFlag(arg.flags, PREALLOCATE)) =>
               /\ CountKey(ret, "mintedcurrency") = 1
               /\ \A key \in FlagKeys \cup {"preallocation"} : ~HasKey(ret, key)
        /\ (~HasFlag(arg.flags, MINT_CURRENCY) /\ ~HasFlag(arg.flags, PREALLOCATE)) =>
               /\ \A key \in FlagKeys :
                      /\ CountKey(ret, key) = 1
                      /\ ValueOf(ret, key) = UniBool(HasFlag(arg.flags, FlagBitOf[key]))
               /\ ~HasKey(ret, "preallocation")
               /\ ~HasKey(ret, "mintedcurrency")
        /\ \A key \in {"fees", "destinationcurrencyid", "destination"} :
               CountKey(ret, key) = 1

\* C10 witness: a transfer with only MINT_CURRENCY (and VALID) set was
\* projected
C10_Witness_MintOnly ==
    /\ fn = "CReserveTransfer::ToUniValue"
    /\ ~fault
    /\ arg.flags = MINT_CURRENCY + 1
    /\ HasKey(ret, "mintedcurrency")
    /\ HasKey(ret, "fees")

\* a transfer with CONVERT and FEE_OUTPUT set was projected
ConvertFeeOutputProjected ==
    /\ fn = "CReserveTransfer::ToUniValue"
    /\ ~fault
    /\ arg.flags = CONVERT + FEE_OUTPUT
    /\ ValueOf(ret, "convert") = UniBool(TRUE)
    /\ ValueOf(ret, "preconvert") = UniBool(FALSE)
    /\ ValueOf(ret, "feeoutput") = UniBool(TRUE)

\* a transfer whose fees are INT64_MIN was projected, -amount having wrapped
FeesAtMinProjected ==
    /\ fn = "CReserveTransfer::ToUniValue"
    /\ ~fault
    /\ arg.nFees = INT64_MIN

(***************************************************************************)
(* C16.  CCurrencyState::ToUniValue.                                       *)
(***************************************************************************)
\* the basket entry the projection holds for member i (counting from 1)
BasketEntry(i) == ValueOf(ret, "reservecurrencies").values[i]

\* C16: flags, initialsupply, emitted and supply are always there; the list
\* reservecurrencies is there exactly when the state is valid and in reserve
\* mode, and then holds one entry per basket member in basket order, each with
\* currencyid, weight, reserves and priceinreserve, weight and reserves reading
\* zero where the weights or reserves array is shorter than the basket
C16_CurrencyStateProjection ==
    (fn = "CCurrencyState::ToUniValue" /\ ~fault) =>
        /\ \A key \in {"flags", "initialsupply", "emitted", "supply"} : CountKey(ret, key) = 1
        /\ HasKey(ret, "reservecurrencies")
               <=> (CCurrencyState_IsValid(arg) /\ CCurrencyState_IsReserve(arg))
        /\ HasKey(ret, "reservecurrencies") =>
               /\ CountKey(ret, "reservecurrencies") = 1
               /\ ValueOf(ret, "reservecurrencies").typ = "VARR"
               /\ Len(ValueOf(ret, "reservecurrencies").values) = Len(arg.currencies)
               /\ \A i \in 1..Len(arg.currencies) :
                      /\ BasketEntry(i).keys
                             = <<"currencyid", "weight", "reserves", "priceinreserve">>
                      /\ ValueOf(BasketEntry(i), "currencyid")
                             = UniStr(EncodeDestination(CIdentityID(arg.currencies[i])))
                      /\ i > Len(arg.weights)
                             => ValueOf(BasketEntry(i), "weight") = UniNum("0.00000000")
                      /\ i > Len(arg.reserves)
                             => ValueOf(BasketEntry(i), "reserves") = UniNum("0.00000000")
                      /\ i <= Len(arg.weights)
                             => ValueOf(BasketEntry(i), "weight")
                                    \in {o.value : o \in ValueFromAmount(arg.weights[i])}
                      /\ i <= Len(arg.reserves)
                             => ValueOf(BasketEntry(i), "reserves")
                                    \in {o.value : o \in ValueFromAmount(arg.reserves[i])}

\* C16 witness: a valid reserve state of three members with two weights and one
\* reserve was projected
C16_Witness_ShortArrays ==
    /\ fn = "CCurrencyState::ToUniValue"
    /\ ~fault
    /\ arg.flags = VALID + ISRESERVE
    /\ Len(arg.currencies) = 3 /\ Len(arg.weights) = 2 /\ Len(arg.reserves) = 1
    /\ ValueOf(BasketEntry(3), "weight") = UniNum("0.00000000")
    /\ ValueOf(BasketEntry(2), "weight") = UniNum("0.50000002")
    /\ ValueOf(BasketEntry(2), "reserves") = UniNum("0.00000000")

(***************************************************************************)
(* C11.  The table under "currencies" of a coinbase currency state.        *)
(***************************************************************************)
\* the table the projection holds
FlowTable == ValueOf(ret, "currencies")

\* one row per basket member under its encoded identifier, the six columns in
\* every row
TableShape ==
    /\ CountKey(ret, "currencies") = 1
    /\ FlowTable.typ = "VOBJ"
    /\ FlowTable.keys = CoinbaseRowNames(arg)
    /\ \A i \in 1..Len(arg.currencies) : FlowTable.values[i].keys = CoinbaseColumnNames

\* the cell of member i and flow array j is the array's amount at i, zero where
\* the array is too short
CellsAsClaimed ==
    \A i \in 1..Len(arg.currencies) : \A j \in 1..6 :
        FlowTable.values[i].values[j]
            = UniNum(ClaimedFormat(IF i <= Len(CoinbaseData(arg)[j])
                                   THEN CoinbaseData(arg)[j][i] ELSE FromInt(0)))

\* C11: the projection returns for every basket and flow arrays of any
\* lengths, with one row per basket member, the six columns in every row, and
\* in each cell the flow array's amount for the member, zero where the array is
\* shorter than the basket
C11_FlowTable ==
    fn = "CCoinbaseCurrencyState::ToUniValue" => (~fault /\ TableShape /\ CellsAsClaimed)

\* the same where no flow amount is INT64_MIN
FlowTableAboveMin ==
    (fn = "CCoinbaseCurrencyState::ToUniValue" /\ INT64_MIN \notin Range(arg.reserveIn))
        => (~fault /\ TableShape /\ CellsAsClaimed)

\* the shape of the table whenever the call returns
FlowTableShapeOnReturn ==
    (fn = "CCoinbaseCurrencyState::ToUniValue" /\ ~fault) => TableShape

\* a basket of three members with two entries of reserveIn was projected, the
\* third member's reservein zero
ShortReserveInProjected ==
    /\ fn = "CCoinbaseCurrencyState::ToUniValue"
    /\ ~fault
    /\ Len(arg.currencies) = 3 /\ Len(arg.reserveIn) = 2
    /\ FlowTable.values[3].values[1] = UniNum("0.00000000")
    /\ FlowTable.values[2].values[1] = UniNum("0.00001002")

(***************************************************************************)
(* C12.  work and stake of a notarization are the two halves of            *)
(* compactPower.  The texts are read back as numbers, bytes least          *)
(* significant first.                                                      *)
(***************************************************************************)
\* the value of a hex digit
HexVal(c) == CHOOSE n \in 0..15 : HexDigit(n) = c

\* the bytes a text of hex digits, most significant first, denotes
BytesOfHex(text) ==
    [i \in 1..(Len(text) \div 2) |->
        LET at == Len(text) - (2 * i) + 1
        IN  16 * HexVal(CharAt(text, at)) + HexVal(CharAt(text, at + 1))]

\* the number is below 2^128
Below2To128(bytes) == \A i \in 1..Len(bytes) : i > 16 => bytes[i] = 0

\* C12: work is compactPower mod 2^128 and stake is compactPower >> 128, both
\* below 2^128, so that work + stake * 2^128 is compactPower
C12_WorkStakeSplit ==
    fn = "CPBaaSNotarization::ToUniValue" =>
        LET work == BytesOfHex(ValueOf(ret, "work").val)
            stake == BytesOfHex(ValueOf(ret, "stake").val)
        IN  /\ ~fault
            /\ Len(work) = 32 /\ Len(stake) = 32
            /\ Below2To128(work) /\ Below2To128(stake)
            /\ \A i \in 1..16 : work[i] = arg.compactPower[i]
            /\ \A i \in 1..16 : stake[i] = arg.compactPower[i + 16]
            /\ [i \in 1..32 |-> IF i <= 16 THEN work[i] ELSE stake[i - 16]] = arg.compactPower

\* C12 witness: a compactPower with bits set in both halves was split
C12_Witness_BothHalves ==
    /\ fn = "CPBaaSNotarization::ToUniValue"
    /\ arg.compactPower = [i \in 1..32 |-> IF i <= 16 THEN 255 ELSE IF i = 17 THEN 1 ELSE 0]
    /\ ValueOf(ret, "work").val = Zeros(32) \o "ffffffffffffffffffffffffffffffff"
    /\ ValueOf(ret, "stake").val = Zeros(63) \o "1"

(***************************************************************************)
(* C13.  The optional sections of a currency definition's projection.      *)
(***************************************************************************)
\* no era array has an entry
NoEras ==
    Len(arg.rewards) = 0 /\ Len(arg.rewardsDecay) = 0
        /\ Len(arg.halving) = 0 /\ Len(arg.eraEnd) = 0

\* the seven sections that are arrays of a sequence of the definition: each is
\* there exactly when its sequence has an entry, and then holds one element per
\* entry
GuardedSections ==
    LET seqOf == [notaries |-> arg.notaries, currencies |-> arg.currencies,
                  weights |-> arg.weights, conversions |-> arg.conversions,
                  preallocation |-> arg.preAllocation,
                  initialcontributions |-> arg.contributions,
                  preconversions |-> arg.preconverted]
    IN  \A key \in DOMAIN seqOf :
            /\ HasKey(ret, key) <=> Len(seqOf[key]) > 0
            /\ HasKey(ret, key) =>
                   /\ CountKey(ret, key) = 1
                   /\ Len(ValueOf(ret, key).values) = Len(seqOf[key])

\* C13: every optional section, the reward eras among them, is in the output
\* exactly when its sequence is not empty, and never as an empty array
C13_SectionsOnlyWhenNonEmpty ==
    (fn = "CCurrencyDefinition::ToUniValue" /\ ~fault) =>
        /\ GuardedSections
        /\ HasKey(ret, "eras") <=> ~NoEras
        /\ HasKey(ret, "eras") => Len(ValueOf(ret, "eras").values) > 0

\* the same of the sections other than the eras
SectionsButEras ==
    (fn = "CCurrencyDefinition::ToUniValue" /\ ~fault) => GuardedSections

\* the eras are in every output, as an array
ErasAlwaysEmitted ==
    (fn = "CCurrencyDefinition::ToUniValue" /\ ~fault) =>
        (CountKey(ret, "eras") = 1 /\ ValueOf(ret, "eras").typ = "VARR")

\* a definition with no era at all was projected with an empty "eras" array
NoErasProjected ==
    /\ fn = "CCurrencyDefinition::ToUniValue"
    /\ ~fault
    /\ NoEras
    /\ ValueOf(ret, "eras") = UniArr

(***************************************************************************)
(* C14.  One era per index of the four era arrays.                         *)
(***************************************************************************)
\* the largest of four lengths
Longest(a, b, c, d) ==
    CHOOSE n \in {Len(a), Len(b), Len(c), Len(d)} :
        \A m \in {Len(a), Len(b), Len(c), Len(d)} : m <= n

\* era i of the output holds the four arrays' values at i, zero where an array
\* is too short
EraAsClaimed(i) ==
    ValueOf(ret, "eras").values[i]
        = PushKV(PushKV(PushKV(PushKV(UniObj,
              "reward", UniInt64(AtOrZero(arg.rewards, i - 1))),
              "decay", UniInt64(AtOrZero(arg.rewardsDecay, i - 1))),
              "halving", UniInt64(AtOrZero(arg.halving, i - 1))),
              "eraend", UniInt64(AtOrZero(arg.eraEnd, i - 1)))

\* C14: every index that exists in any of rewards, rewardsDecay, halving and
\* eraEnd gives one era, whose fields are the arrays' values at the index, zero
\* for an array too short; no value of a longer array is dropped
C14_OneEraPerIndex ==
    (fn = "CCurrencyDefinition::ToUniValue" /\ ~fault) =>
        /\ Len(ValueOf(ret, "eras").values)
               = Longest(arg.rewards, arg.rewardsDecay, arg.halving, arg.eraEnd)
        /\ \A i \in 1..Len(ValueOf(ret, "eras").values) : EraAsClaimed(i)

\* what the loop does: one era per entry of rewards
ErasFollowRewards ==
    (fn = "CCurrencyDefinition::ToUniValue" /\ ~fault) =>
        /\ Len(ValueOf(ret, "eras").values) = Len(arg.rewards)
        /\ \A i \in 1..Len(arg.rewards) : EraAsClaimed(i)

\* a definition with one reward and two decays was projected with one era
LongerDecayDropped ==
    /\ fn = "CCurrencyDefinition::ToUniValue"
    /\ ~fault
    /\ Len(arg.rewards) = 1 /\ Len(arg.rewardsDecay) = 2
    /\ Len(ValueOf(ret, "eras").values) = 1

(***************************************************************************)
(* C15.  CReserveExchange::ToUniValue.                                     *)
(***************************************************************************)
\* C15: limitprice is there exactly when LIMIT is set, validbeforeblock exactly
\* when FILL_OR_KILL is set, limitorder, fillorkill and sendoutput are the
\* booleans of their bits, and toreserve and tonative are both there and
\* opposite
C15_ExchangeFlags ==
    (fn = "CReserveExchange::ToUniValue" /\ ~fault) =>
        /\ HasKey(ret, "limitprice") <=> HasFlag(arg.flags, LIMIT)
        /\ HasKey(ret, "validbeforeblock") <=> HasFlag(arg.flags, FILL_OR_KILL)
        /\ \A key \in {"limitprice", "validbeforeblock"} : CountKey(ret, key) <= 1
        /\ \A key \in {"toreserve", "tonative", "limitorder", "fillorkill", "sendoutput"} :
               CountKey(ret, key) = 1
        /\ ValueOf(ret, "limitorder") = UniBool(HasFlag(arg.flags, LIMIT))
        /\ ValueOf(ret, "fillorkill") = UniBool(HasFlag(arg.flags, FILL_OR_KILL))
        /\ ValueOf(ret, "sendoutput") = UniBool(HasFlag(arg.flags, SEND_OUTPUT))
        /\ ValueOf(ret, "toreserve") = UniBool(HasFlag(arg.flags, TO_RESERVE))
        /\ ValueOf(ret, "tonative") = UniBool(~HasFlag(arg.flags, TO_RESERVE))
        /\ ValueOf(ret, "toreserve") # ValueOf(ret, "tonative")

\* C15 witness: a fill-or-kill exchange to reserve without a limit was projected
C15_Witness_FillOrKillNoLimit ==
    /\ fn = "CReserveExchange::ToUniValue"
    /\ ~fault
    /\ arg.flags = VALID + TO_RESERVE + FILL_OR_KILL
    /\ ~HasKey(ret, "limitprice")
    /\ ValueOf(ret, "validbeforeblock") = UniInt(arg.nValidBefore)
    /\ ValueOf(ret, "tonative") = UniBool(FALSE)

(***************************************************************************)
(* C17.  FormatScript loses no character of its output.                    *)
(***************************************************************************)
\* a pass whose text has no space after the token
BareToken(e) == e.text = e.token

\* C17: for every script the result is the tokens of the opcodes in order, one
\* space between two of them, no space after the last, and no character of a
\* token missing
C17_NoCharacterLost ==
    fn = "FormatScript" => (~fault /\ ret.str = JoinTokens(ret.trace))

\* the same of the scripts none of whose opcodes gives a token without the space
FormatExactWithoutBareTokens ==
    (fn = "FormatScript" /\ \A i \in 1..Len(ret.trace) : ~BareToken(ret.trace[i]))
        => (~fault /\ ret.str = JoinTokens(ret.trace))

\* the script OP_RESERVED was formatted as "0x5", the last digit of 0x50 lost
LastCharacterLost ==
    /\ fn = "FormatScript"
    /\ arg = <<OP_RESERVED>>
    /\ ret.str = "0x5"

\* OP_RESERVED OP_1 was formatted with nothing between the two tokens
SeparatorMissing ==
    /\ fn = "FormatScript"
    /\ arg = <<OP_RESERVED, OP_1>>
    /\ ret.str = "0x501"

====
